---- MODULE Spec2Model ----
(***************************************************************************)
(* Model of the WASM guest runtime of munal-os (kernel/src/wasm/mod.rs):   *)
(* guest instantiation, the per-tick step with its Step Context, the host  *)
(* ABI stubs, the per-guest socket registry and the per-tick stats point.  *)
(*                                                                         *)
(* The kernel is single threaded: at most one guest is inside              *)
(* instantiate_app or step at any time.  A Rust panic in the kernel ends   *)
(* in the panic handler, which loops forever: the state is frozen.         *)
(***************************************************************************)
EXTENDS Integers, Sequences, FiniteSets, TLC

\* ---------------------------------------------------------------- bounds
NGuests == 2
MaxTicks == 2
MaxConnects == 2
NHandles == 2
MaxPages == 2
MaxNet == 1
MaxConsole == 1
\* passes of main's loop explored in one run
MaxFrames == 6

\* Q_SIZE is 256 and MAX_PACKET_SIZE 1514 in virtio/network.rs; the model
\* runs the same code on small queues and packets.
Q_SIZE == 2
MAX_PACKET_SIZE == 3

\* update_pointer computes in i32 on the display of the GPU; the model
\* gives an i32 PointerBits bits and the display DisplayW x DisplayH pixels.
PointerBits == 4
DisplayW == 3
DisplayH == 3

\* Webview: the updates explored in one run, the scroll offset up to which
\* scrolling down is explored, and the character cell of the font (HACK_15
\* is defined in applib; the model uses a small cell)
MaxUpdates == 3
MaxScroll == 10
FontCharW == 2
FontCharH == 3

\* compute_layout: the children of one element of the documents laid out,
\* and the width of the page
MaxChildren == 2
PageMaxW == 12

\* PixelData: the addresses the guest's allocator hands out, and the
\* largest width and height of the window
NumAddrs == 3
MaxWinDim == 2

\* set_autoscroll: the width of a u32 (32 in the source)
U32Bits == 4

\* const SCROLL_SPEED: u32 = 10
SCROLL_SPEED == 10

\* STEP_FUEL is u64::MAX in the source; the model runs the same mechanism
\* on a small budget.
STEP_FUEL == 2

\* Integer widths, scaled down: a guest i32 has GuestBits bits, a host usize
\* has HostBits bits, a u16 port has PortBits bits, a linear-memory page has
\* PageBytes bytes.
GuestBits == 6
HostBits == 8
PortBits == 2
PageBytes == 24

\* size_of::<T>() of the records written by write_to_wasm_mem; the types are
\* defined in applib, the model only needs sizes that fit the scaled memory.
SizeOfInputState == 16
SizeOfRect == 24
SizeOfStyleSheet == 16

\* mem.size(..) * 65_536 in WasmApp::step
WASM_PAGE_SIZE == 65536

Guests == 1..NGuests
Handles == 1..NHandles

Pow2(n) == 2 ^ n
USIZE_MOD == Pow2(HostBits)
U32_MOD == Pow2(GuestBits)
U16_MAX == Pow2(PortBits) - 1

None == 0

VARIABLES
    scenario,       \* the applications of this run: how many, and what they import
    kernel,         \* "running" | "panicked" (panic handler: loop {})
    panic_msg,      \* message of the panic that stopped the kernel
    pc,             \* per guest: position of the kernel in instantiate_app / step
    fuel,           \* per guest: remaining fuel of the wasmi store
    mem_pages,      \* per guest: size of the exported linear memory, in pages
    framebuffer,    \* per guest: StoreData.framebuffer
    sockets_store,  \* per guest: StoreData.sockets_store
    step_context,   \* per guest: StoreData.step_context
    net_recv,       \* per guest: StoreData.net_recv
    net_sent,       \* per guest: StoreData.net_sent
    console_output, \* per guest: StoreData.console_output
    stats,          \* per guest: system.stats app point
    step_ret,       \* per guest: result of the last WasmApp::step call
    tick,           \* per guest: number of WasmApp::step calls so far
    call_args,      \* history: arguments of the instantiate_app / step call made last
    fb_view,        \* what the last WasmApp::get_framebuffer call returned
    tcp_sockets,    \* system.tcp_stack: socket identities in use
    tcp_released,   \* system.tcp_stack: identities handed out earlier, free now
    opened_by,      \* history: guest whose connect returned the identity, 0 if released
    issued,         \* history: per guest, the ids returned by successful connects
    last_call,      \* the ABI stub call made last
    main_loop,      \* main: the loop's position, pointer state, application list
    desktop,        \* the caller of WasmApp::step: its input state and window rectangles
    virtio_net,     \* VirtioNetwork: its two queues and what the last call returned
    pointer,        \* update_pointer: the pointer status, the event handled last, the build
    webview,        \* web_browser: the Webview, its last update and what check_redirect returned
    page_layout,    \* web_browser: a document and what compute_layout returned for it
    canvas,         \* set_autoscroll: its arguments, the offsets, the build
    pixel_data      \* guestlib: PixelData, the guest's heap, the region the host has registered

storeVars == <<fuel, mem_pages, framebuffer, sockets_store, step_context,
               net_recv, net_sent, console_output>>
tcpVars == <<tcp_sockets, tcp_released, opened_by, issued>>
schedVars == <<pc, stats, step_ret, tick, call_args, fb_view>>
vars == <<scenario, kernel, panic_msg, pc, fuel, mem_pages, framebuffer, sockets_store,
          step_context, net_recv, net_sent, console_output, stats, step_ret,
          tick, call_args, fb_view, tcp_sockets, tcp_released, opened_by, issued,
          last_call, main_loop, desktop, virtio_net, pointer, webview, page_layout,
          canvas, pixel_data>>
\* the state of the programs outside the kernel's WASM runtime and main loop
otherVars == <<virtio_net, pointer, webview, page_layout, canvas, pixel_data>>
\* the kernel state that instantiate_app, step and the ABI stubs work on
wasmVars == <<kernel, panic_msg, storeVars, schedVars, tcpVars, last_call>>

\* ------------------------------------------------------------ SocketsStore

EmptyMap == [i \in {} |-> 0]

SocketsStore_new == [sockets |-> EmptyMap, next_id |-> 0]

add_handle_NoIncrement(ss, handle) ==
    [store |-> [sockets |-> [i \in (DOMAIN ss.sockets) \cup {ss.next_id} |->
                                IF i = ss.next_id THEN handle ELSE ss.sockets[i]],
                next_id |-> ss.next_id],
     new_id |-> ss.next_id]

add_handle(ss, handle) ==
    [store |-> [sockets |-> [i \in (DOMAIN ss.sockets) \cup {ss.next_id} |->
                                IF i = ss.next_id THEN handle ELSE ss.sockets[i]],
                next_id |-> ss.next_id + 1],
     new_id |-> ss.next_id]

get_handle_First(ss, handle_id) ==
    IF DOMAIN ss.sockets # {} THEN ss.sockets[0] ELSE None

get_handle(ss, handle_id) ==
    IF handle_id \in DOMAIN ss.sockets THEN ss.sockets[handle_id] ELSE None

\* ---------------------------------------------------------------- StoreData

\* InputState (applib): the pointer and the events of the frame
InputState(x, y, events) == [pointer |-> [x |-> x, y |-> y], events |-> events]
Rect(x0, y0, w, h) == [x0 |-> x0, y0 |-> y0, w |-> w, h |-> h]

NoInput == InputState(0, 0, <<>>)
NoRect == Rect(0, 0, 0, 0)

NoContext == [set |-> FALSE, input_state |-> NoInput, win_rect |-> NoRect,
              timings |-> EmptyMap]
StepContext(input_state, win_rect) ==
    [set |-> TRUE, input_state |-> input_state, win_rect |-> win_rect,
     timings |-> EmptyMap]

\* No call yet.  kind: "instantiate_app" or "step"; input_state, win_rect,
\* is_foreground, is_paused: the arguments (instantiate_app has no flags).
NoArgs == [guest |-> 0, kind |-> "none", input_state |-> NoInput, win_rect |-> NoRect,
           is_foreground |-> FALSE, is_paused |-> FALSE]

\* get_framebuffer was not called yet.  some: Some(..) was returned; addr,
\* len: the byte range of the pixel slice; w, h: the dimensions handed to
\* Framebuffer::from_bytes; bytes: the bytes of the slice.
\* mem: the bytes of the linear memory at the moment of the call.
NoView == [guest |-> 0, some |-> FALSE, addr |-> 0, len |-> 0, w |-> 0, h |-> 0,
           bytes |-> <<>>, mem |-> <<>>]

NoFramebuffer == [set |-> FALSE, addr |-> 0, w |-> 0, h |-> 0]

\* No call yet.  ctx: a Step Context was installed when the stub was entered;
\* has_id/id/known: the handle id argument and whether the registry held it;
\* oob: a guest-supplied range did not fit the linear memory; handle/owner:
\* the socket identity handed to the TCP stack and the guest that had it
\* open then (0: nobody, it was released); has_ret/ret: the value returned to the guest;
\* data: the text the guest handed to fd_write or host_log; len: the len
\* argument of host_tcp_write or host_tcp_read, as usize; value: the number
\* host_get_consumed_fuel wrote to the guest memory; writes: the stores to
\* guest memory made by environ_sizes_get, environ_get or args_sizes_get, in
\* their order, each as the address and the bytes; not_utf8: the bytes the
\* stub handed to from_utf8 were not valid UTF-8; sample: the 8 bytes
\* host_save_timing read at consumed_addr (data is then the key).
NoCall == [guest |-> 0, stub |-> "none", ctx |-> FALSE, has_id |-> FALSE,
           id |-> 0, known |-> FALSE, oob |-> FALSE, handle |-> 0,
           owner |-> 0, has_ret |-> FALSE, ret |-> 0, data |-> <<>>, len |-> 0,
           value |-> 0, writes |-> <<>>, not_utf8 |-> FALSE,
           sample |-> <<>>]

\* AppDataPoint { net_recv, net_sent, mem_used, frametime_used }
AppDataPoint(nr, ns, mem, ft) ==
    [net_recv |-> nr, net_sent |-> ns, mem_used |-> mem, frametime_used |-> ft]

\* The runs explored by Spec: one application whose module imports no host
\* function, the WASI functions, the env functions of the user interface,
\* those of time and fuel, or the TCP functions of one direction.
Scenarios ==
    {[apps |-> 1, imports |-> "none"], [apps |-> 1, imports |-> "wasi"],
     [apps |-> 1, imports |-> "ui"], [apps |-> 1, imports |-> "time"],
     [apps |-> 1, imports |-> "fb"], [apps |-> 1, imports |-> "input"],
     [apps |-> 1, imports |-> "log"],
     [apps |-> 1, imports |-> "tcp_send"], [apps |-> 1, imports |-> "tcp_recv"]}

\* The runs explored by SpecNet: several applications on one TCP stack.
NetScenario == [apps |-> NGuests, imports |-> "tcp"]

\* const APPLICATIONS: [AppDescriptor; 2]
NApplications == 2

\* APPLICATIONS[a].launch_rect and APPLICATIONS[a].init_win_rect
launch_rect(a) == IF a = 1 THEN Rect(100, 100, 200, 40) ELSE Rect(100, 150, 200, 40)
init_win_rect(a) == IF a = 1 THEN Rect(200, 200, 400, 400) ELSE Rect(600, 200, 200, 200)

\* Option<(i32, i32)>: None, Some((dx, dy))
NoGrab == [some |-> FALSE, dx |-> 0, dy |-> 0]
SomeGrab(dx, dy) == [some |-> TRUE, dx |-> dx, dy |-> dy]

\* App { descriptor, is_open: false, rect: init_win_rect, grab_pos: None }
App_new(a) == [is_open |-> FALSE, rect |-> init_win_rect(a), grab_pos |-> NoGrab]

\* PointerState { x, y, clicked }
PointerState(x, y, clicked) == [x |-> x, y |-> y, clicked |-> clicked]

\* main before its loop.  pc: "loop" between two passes, "update_apps"
\* inside the for loop of update_apps before application i, "call_app"
\* inside call_app of application i; called: history, the applications
\* call_app was entered for in this pass, in the order of the calls;
\* frames: the passes begun so far.
main_init ==
    [pc |-> "loop", pointer_state |-> PointerState(0, 0, FALSE),
     applications |-> [a \in 1..NApplications |-> App_new(a)],
     i |-> 0, called |-> <<>>, frames |-> 0]

\* The run explored by SpecMain: the main loop and its application list.
MainScenario == [apps |-> 0, imports |-> "main"]

\* The run explored by SpecTick: a caller that steps every application once
\* per tick.
TickScenario == [apps |-> NGuests, imports |-> "tick"]

\* The caller of step owns the global InputState of the tick and one window
\* rectangle per application and passes them by reference.  tick_input:
\* history, the input state as the tick began with it; stepped: the
\* applications stepped in this tick so far.
WinRect(g) == Rect(g, g + 1, 4, 4)

desktop_init ==
    [input_state |-> NoInput, tick_input |-> NoInput,
     win_rects |-> [g \in Guests |-> WinRect(g)], stepped |-> {}]

\* The run explored by SpecVirtio: the network driver and its device.
VirtioScenario == [apps |-> 0, imports |-> "virtio_net"]

\* VirtioQueue<Q_SIZE> (virtio/mod.rs): Q_SIZE descriptors; avail holds the
\* buffers offered to the device, used those the device has handed back and
\* the driver has not popped yet.  Every message VirtioNetwork pushes is one
\* buffer.
VirtioQueue_new == [avail |-> <<>>, used |-> <<>>]

\* the driver before VirtioNetwork::new.  pc: "new" inside the loop of new,
\* "ready" once new has returned; ret: what the last try_recv or try_send
\* returned (history).
NoRet == [fn |-> "none", some |-> FALSE, value |-> <<>>]

VirtioNetwork_init ==
    [pc |-> "new", receiveq |-> VirtioQueue_new, transmitq |-> VirtioQueue_new,
     ret |-> NoRet]

\* The run explored by SpecPointer: update_pointer on the events of the
\* input device.
PointerScenario == [apps |-> 0, imports |-> "update_pointer"]

\* a virtio input event { _type, code, value }
NoEvent == [type |-> 0, code |-> 0, value |-> 0]

\* PointerState { x: 0, y: 0, clicked: false } of main.  event: history, the
\* event handled last; overflow_checks: whether the kernel was built with
\* overflow checks (a debug build) or without (a release build).
pointer_init(overflow_checks) ==
    [status |-> [x |-> 0, y |-> 0, clicked |-> FALSE], event |-> NoEvent,
     overflow_checks |-> overflow_checks]

\* the builds a run is explored for
Builds(sc) == IF sc = PointerScenario THEN BOOLEAN ELSE {FALSE}

\* The run explored by SpecWebview: the Webview of the web browser.
WebviewScenario == [apps |-> 0, imports |-> "webview"]

\* Option<LinkData>, Option<&str>
NoLink == [some |-> FALSE, node_id |-> 0, rect |-> NoRect, url |-> "", clicked |-> FALSE]
NoUrl == [some |-> FALSE, url |-> ""]

\* the input of the update made last (history): whether it carried HTML,
\* whether the pointer was over a link of the page, the left button
NoUpdate == [html |-> FALSE, over_link |-> FALSE, left_clicked |-> FALSE, redraw |-> FALSE]

\* Webview::new(view_rect): State::Blank.  layout, link_data and y_offset
\* are the fields of State::Active; panic: the message of the panic the
\* guest has ended with; updates: the update calls so far; redirect: what
\* check_redirect returned when called after the last update.
Webview_new(view_rect) ==
    [state |-> "Blank", view_rect |-> view_rect, next_node_id |-> 0,
     layout |-> <<>>, link_data |-> NoLink, y_offset |-> 0,
     panic |-> "", updates |-> 0, last |-> NoUpdate, redirect |-> NoUrl]

\* The run explored by SpecLayout: compute_layout applied to a document.
LayoutScenario == [apps |-> 0, imports |-> "layout"]

\* HtmlNode::Tag { name, attrs } with the children of its tree node (attrs:
\* the width and height of an img), HtmlNode::Text { text }
Tag(name, children) ==
    [kind |-> "Tag", name |-> name, width |-> 0, height |-> 0, text |-> <<>>,
     children |-> children]
Img(width, height) ==
    [kind |-> "Tag", name |-> "img", width |-> width, height |-> height, text |-> <<>>,
     children |-> <<>>]
Text(text) ==
    [kind |-> "Text", name |-> "", width |-> 0, height |-> 0, text |-> text,
     children |-> <<>>]

\* the documents laid out: html with one element of up to MaxChildren
\* children, each a text, an image or an element around one of these
HtmlLeaves ==
    {Text(<<"a", "b">>), Text(<<"a", "b", "c", "d", "e", "f", "g">>), Text(<<" ">>),
     Img(2, 3)}
HtmlTags == {"p", "tr", "div", "span", "head", "script"}
HtmlChildren == HtmlLeaves \cup {Tag(t, <<l>>) : t \in HtmlTags, l \in HtmlLeaves}
HtmlTrees ==
    {Tag("html", <<Tag(r, c)>>) :
        r \in {"body", "p"},
        c \in UNION {[1..n -> HtmlChildren] : n \in 1..MaxChildren}}

NoTree == Text(<<>>)
Documents(sc) == IF sc = LayoutScenario THEN HtmlTrees ELSE {NoTree}

\* anyhow::Result<LayoutNode>
NoLayout == [ok |-> FALSE, node |-> <<>>]

page_layout_init(html_tree) ==
    [html_tree |-> html_tree, page_max_w |-> PageMaxW, done |-> FALSE, result |-> NoLayout]

\* The run explored by SpecAutoscroll: set_autoscroll applied once.
AutoscrollScenario == [apps |-> 0, imports |-> "autoscroll"]

U32_MAX == 2 ^ U32Bits - 1

\* the arguments of set_autoscroll (dst_rect.h, max_h, offsets), whether
\* the build checks integer overflow, whether the call was made and
\* whether it panicked
canvas_init(dst_h, max_h, offsets, overflow_checks) ==
    [dst_rect |-> Rect(0, 0, 1, dst_h), max_h |-> max_h, offsets |-> offsets,
     before |-> offsets, overflow_checks |-> overflow_checks, called |-> FALSE,
     panic |-> FALSE]

Canvases(sc) ==
    IF sc = AutoscrollScenario
    THEN {canvas_init(dst_h, max_h, offsets, c) :
            dst_h \in 0..U32_MAX, max_h \in 0..U32_MAX,
            offsets \in {<<0, 0>>, <<3, 5>>}, c \in BOOLEAN}
    ELSE {canvas_init(0, 0, <<0, 0>>, FALSE)}

\* The run explored by SpecPixelData: a guest that uses PixelData while
\* the host resizes its window.
PixelDataScenario == [apps |-> 0, imports |-> "pixel_data"]

\* FramebufferHandle { ptr, w, h }; the allocation behind it has w * h pixels
FramebufferHandle(ptr, w, h) == [ptr |-> ptr, w |-> w, h |-> h]
Allocation(handle) == [ptr |-> handle.ptr, n |-> handle.w * handle.h]

\* host_set_framebuffer(addr, w, h): the region the host has registered
Registered(handle) == [addr |-> handle.ptr, w |-> handle.w, h |-> handle.h]

\* PixelData::new() with the window rectangle win_rect: the buffer is
\* allocated and registered.  heap: the live allocations of the guest;
\* pc: the position inside refresh_framebuffer ("idle" outside), call:
\* the method that runs it, new_w, new_h, new_fb_handle: its arguments
\* and local; last_ret: the method that returned last, "" after a resize.
PixelData_new(win_rect) ==
    LET fb_handle == FramebufferHandle(1, win_rect.w, win_rect.h)
    IN  [fb_handle |-> fb_handle, heap |-> {Allocation(fb_handle)},
         registered |-> Registered(fb_handle), win_rect |-> win_rect,
         pc |-> "idle", call |-> "", new_w |-> 0, new_h |-> 0,
         new_fb_handle |-> fb_handle, last_ret |-> "new"]

InitState ==
    /\ kernel = "running"
    /\ panic_msg = ""
    /\ pc = [g \in Guests |-> "none"]
    /\ fuel = [g \in Guests |-> 0]
    /\ mem_pages = [g \in Guests |-> 1]
    /\ framebuffer = [g \in Guests |-> NoFramebuffer]
    /\ sockets_store = [g \in Guests |-> SocketsStore_new]
    /\ step_context = [g \in Guests |-> NoContext]
    /\ net_recv = [g \in Guests |-> 0]
    /\ net_sent = [g \in Guests |-> 0]
    /\ console_output = [g \in Guests |-> [version |-> 0, content |-> <<>>]]
    /\ stats = [g \in Guests |-> AppDataPoint(0, 0, 0, 0)]
    /\ step_ret = [g \in Guests |-> "none"]
    /\ tick = [g \in Guests |-> 0]
    /\ call_args = NoArgs
    /\ fb_view = NoView
    /\ tcp_sockets = {}
    /\ tcp_released = {}
    /\ opened_by = [h \in Handles |-> 0]
    /\ issued = [g \in Guests |-> <<>>]
    /\ last_call = NoCall
    /\ main_loop = main_init
    /\ desktop = desktop_init
    /\ virtio_net = VirtioNetwork_init
    /\ pointer \in {pointer_init(c) : c \in Builds(scenario)}
    /\ webview = Webview_new(Rect(0, 0, 8, 8))
    /\ page_layout \in {page_layout_init(t) : t \in Documents(scenario)}
    /\ canvas \in Canvases(scenario)
    /\ pixel_data = PixelData_new(Rect(0, 0, 1, 1))

Init == scenario \in Scenarios /\ InitState

InitNet == scenario = NetScenario /\ InitState

InitMain == scenario = MainScenario /\ InitState

InitTick == scenario = TickScenario /\ InitState

\* ------------------------------------------------------------ conversions

\* `x as usize` for x: i32 (sign extension to the host width)
AsUsize(x) == IF x < 0 THEN x + USIZE_MOD ELSE x

\* `x as u32` for x: i32
AsU32(x) == IF x < 0 THEN x + Pow2(GuestBits) ELSE x

MemBytes(g) == mem_pages[g] * PageBytes

\* &mem_data[a..a + l] for a, l: usize.  "overflow": a + l does not fit a
\* usize (a debug build panics in the addition, a release build wraps and
\* the slice start lies after its end); "oob": the end lies past the memory.
SliceCheck(g, a, l) ==
    IF a + l >= USIZE_MOD THEN "overflow"
    ELSE IF a + l > MemBytes(g) THEN "oob"
    ELSE "ok"

SliceMsgs(chk) ==
    IF chk = "overflow"
    THEN {"attempt to add with overflow", "slice index starts after its end"}
    ELSE {"range end index out of range for slice"}

get_wasm_mem_slice(g, addr, len) == SliceCheck(g, AsUsize(addr), AsUsize(len))

\* mem.write(caller, addr as usize, slice): Err when the range is not inside
\* the memory; the caller expects Ok.
write_to_wasm_mem(g, addr, size) ==
    IF AsUsize(addr) + size <= MemBytes(g) THEN "ok" ELSE "oob"

\* ------------------------------------------------------------ Step Context

with_context_set_fuel_Keep(remaining) == remaining

\* self.store.set_fuel(STEP_FUEL)
with_context_set_fuel(remaining) == STEP_FUEL

\* step_context = Some(StepContext { .., timings: BTreeMap::new() })
with_context_install(input_state, win_rect) == StepContext(input_state, win_rect)

with_context_clear_Keep(ctx) == ctx

\* step_context = None
with_context_clear(ctx) == NoContext

with_step_context_Unchecked(ctx) == "ok"

\* step_context.as_mut().expect("No StepContext set")
with_step_context(ctx) == IF ctx.set THEN "ok" ELSE "panic"

\* ------------------------------------------------------------ scheduling

\* guest code of g is executing on the host call stack
GuestOnStack(g) == pc[g] \in {"start", "init", "step"}

\* the kernel is inside instantiate_app or step of g
Busy(g) == pc[g] \in {"start", "init", "step", "paused"}

KernelFree == kernel = "running" /\ \A k \in Guests : ~Busy(k)

\* WasmEngine::instantiate_app up to the first guest code: a module with a
\* start function runs it inside Instance::start, before any with_context;
\* otherwise with_context is entered and the init export is called.
\* The fuel of a new store is what the engine gives it.  The context of the
\* init call holds input_state and init_rect as they were passed.
instantiate_app(g, has_start, fuel0, input_state, init_rect) ==
    /\ KernelFree
    /\ pc[g] = "none"
    /\ framebuffer' = [framebuffer EXCEPT ![g] = NoFramebuffer]
    /\ sockets_store' = [sockets_store EXCEPT ![g] = SocketsStore_new]
    /\ net_recv' = [net_recv EXCEPT ![g] = 0]
    /\ net_sent' = [net_sent EXCEPT ![g] = 0]
    /\ console_output' = [console_output EXCEPT ![g] = [version |-> 0, content |-> <<>>]]
    /\ IF has_start
       THEN /\ pc' = [pc EXCEPT ![g] = "start"]
            /\ fuel' = [fuel EXCEPT ![g] = fuel0]
            /\ step_context' = [step_context EXCEPT ![g] = NoContext]
       ELSE /\ pc' = [pc EXCEPT ![g] = "init"]
            /\ fuel' = [fuel EXCEPT ![g] = with_context_set_fuel(fuel0)]
            /\ step_context' = [step_context EXCEPT ![g] =
                                    with_context_install(input_state, init_rect)]
    /\ call_args' = [NoArgs EXCEPT !.guest = g, !.kind = "instantiate_app",
                                   !.input_state = input_state, !.win_rect = init_rect]
    /\ UNCHANGED <<kernel, panic_msg, mem_pages, stats, step_ret, tick, fb_view,
                   tcp_sockets, tcp_released, opened_by, issued, last_call>>

\* the start function returned: instantiate_app goes on to with_context and
\* calls the init export
start_return(g) ==
    /\ kernel = "running"
    /\ pc[g] = "start"
    /\ pc' = [pc EXCEPT ![g] = "init"]
    /\ fuel' = [fuel EXCEPT ![g] = with_context_set_fuel(fuel[g])]
    /\ step_context' = [step_context EXCEPT ![g] =
                            with_context_install(call_args.input_state, call_args.win_rect)]
    /\ UNCHANGED <<kernel, panic_msg, mem_pages, framebuffer, sockets_store,
                   net_recv, net_sent, console_output, stats, step_ret, tick,
                   call_args, fb_view,
                   tcp_sockets, tcp_released, opened_by, issued, last_call>>

\* the init export returned: with_context clears the slot and
\* instantiate_app returns the WasmApp
init_return(g) ==
    /\ kernel = "running"
    /\ pc[g] = "init"
    /\ pc' = [pc EXCEPT ![g] = "idle"]
    /\ step_context' = [step_context EXCEPT ![g] = with_context_clear(step_context[g])]
    /\ UNCHANGED <<kernel, panic_msg, fuel, mem_pages, framebuffer, sockets_store,
                   net_recv, net_sent, console_output, stats, step_ret, tick,
                   call_args, fb_view,
                   tcp_sockets, tcp_released, opened_by, issued, last_call>>

\* number of WasmApp::step calls of the run so far
RECURSIVE Ticks(_)
Ticks(n) == IF n = 0 THEN 0 ELSE tick[n] + Ticks(n - 1)

\* InputState::clear_events, InputState::change_origin and Rect::origin
\* are defined in applib.
clear_events(input_state) == [input_state EXCEPT !.events = <<>>]

change_origin(input_state, origin) ==
    [input_state EXCEPT !.pointer = [x |-> @.x - origin.x, y |-> @.y - origin.y]]

origin(rect) == [x |-> rect.x0, y |-> rect.y0]

relative_input_state_KeepEvents(input_state, win_rect, is_foreground) ==
    change_origin(input_state, origin(win_rect))

\* the app-local input state of WasmApp::step
relative_input_state(input_state, win_rect, is_foreground) ==
    change_origin(IF ~is_foreground THEN clear_events(input_state) ELSE input_state,
                  origin(win_rect))

\* WasmApp::step up to the call of the step export: the input state is made
\* app-local, with_context sets the fuel and installs the context, the
\* closure resets the net counters and calls the export unless the guest is
\* paused.  The view a get_framebuffer call borrowed has ended by now.
net_reset_Keep(counter) == counter

\* store.data_mut().net_recv = 0; store.data_mut().net_sent = 0
net_reset(counter) == 0

step_closure_Call(is_paused) == "step"

\* match is_paused { false => self.wasm_step.call(&mut store, ()), true => Ok(()) }
step_closure(is_paused) == IF is_paused THEN "paused" ELSE "step"

step(g, is_paused, input_state, win_rect, is_foreground) ==
    /\ KernelFree
    /\ pc[g] = "idle"
    /\ Ticks(NGuests) < MaxTicks
    /\ tick' = [tick EXCEPT ![g] = @ + 1]
    /\ fuel' = [fuel EXCEPT ![g] = with_context_set_fuel(fuel[g])]
    /\ step_context' = [step_context EXCEPT ![g] =
                            with_context_install(
                                relative_input_state(input_state, win_rect, is_foreground),
                                win_rect)]
    /\ call_args' = [guest |-> g, kind |-> "step", input_state |-> input_state,
                     win_rect |-> win_rect, is_foreground |-> is_foreground,
                     is_paused |-> is_paused]
    /\ fb_view' = NoView
    /\ net_recv' = [net_recv EXCEPT ![g] = net_reset(@)]
    /\ net_sent' = [net_sent EXCEPT ![g] = net_reset(@)]
    /\ pc' = [pc EXCEPT ![g] = step_closure(is_paused)]
    /\ last_call' = NoCall
    /\ UNCHANGED <<kernel, panic_msg, mem_pages, framebuffer, sockets_store,
                   console_output, stats, step_ret, tcp_sockets, tcp_released, opened_by, issued>>

\* WasmApp::step after the closure returned res: with_context clears the
\* slot, the stats point of the app is overwritten, res is returned.
\* frametime: t1 - t0 as the system clock gave them.
step_finish(g, res, frametime) ==
    /\ step_context' = [step_context EXCEPT ![g] = with_context_clear(step_context[g])]
    /\ stats' = [stats EXCEPT ![g] =
                    AppDataPoint(net_recv[g], net_sent[g],
                                 mem_pages[g] * WASM_PAGE_SIZE, frametime)]
    /\ step_ret' = [step_ret EXCEPT ![g] = res]
    /\ pc' = [pc EXCEPT ![g] = "idle"]
    /\ last_call' = NoCall
    /\ UNCHANGED <<kernel, panic_msg, fuel, mem_pages, framebuffer, sockets_store,
                   net_recv, net_sent, console_output, tick, call_args, fb_view,
                   tcp_sockets, tcp_released, opened_by, issued>>

\* is_paused: the closure returns Ok(()) without calling the guest
paused_return(g, frametime) ==
    /\ kernel = "running"
    /\ pc[g] = "paused"
    /\ step_finish(g, "Ok", frametime)

\* the step export returned normally
step_return(g, frametime) ==
    /\ kernel = "running"
    /\ pc[g] = "step"
    /\ step_finish(g, "Ok", frametime)

\* The engine reports a trap of the running guest code.  In step the error
\* is returned to the caller of step; instantiate_app unwraps the result of
\* the start function and expects the init call to succeed.
trap(g, frametime) ==
    CASE pc[g] = "step" -> step_finish(g, "Err", frametime)
      [] pc[g] = "init" ->
            /\ kernel' = "panicked"
            /\ panic_msg' = "Failed to initialize WASM app"
            /\ UNCHANGED <<storeVars, schedVars, tcpVars, last_call>>
      [] pc[g] = "start" ->
            /\ kernel' = "panicked"
            /\ panic_msg' = "called Result::unwrap() on an Err value"
            /\ UNCHANGED <<storeVars, schedVars, tcpVars, last_call>>

\* guest code traps on its own (unreachable, memory fault, ...)
guest_trap(g, frametime) ==
    /\ kernel = "running"
    /\ GuestOnStack(g)
    /\ trap(g, frametime)

\* guest code runs on: one unit of fuel is consumed, or none is left and
\* the engine traps
guest_run(g, frametime) ==
    /\ kernel = "running"
    /\ GuestOnStack(g)
    /\ IF fuel[g] > 0
       THEN /\ fuel' = [fuel EXCEPT ![g] = @ - 1]
            /\ UNCHANGED <<kernel, panic_msg, mem_pages, framebuffer, sockets_store,
                           step_context, net_recv, net_sent, console_output,
                           schedVars, tcpVars, last_call>>
       ELSE trap(g, frametime)

\* memory.grow by one page
guest_grow(g) ==
    /\ kernel = "running"
    /\ GuestOnStack(g)
    /\ mem_pages[g] < MaxPages
    /\ mem_pages' = [mem_pages EXCEPT ![g] = @ + 1]
    /\ UNCHANGED <<kernel, panic_msg, fuel, framebuffer, sockets_store,
                   step_context, net_recv, net_sent, console_output,
                   schedVars, tcpVars, last_call>>

\* WasmApp::get_framebuffer, called between steps.  mem_data: the bytes the
\* linear memory holds at this moment.  w * h * 4 is a u32 product: when it
\* does not fit, a build with overflow checks panics and one without wraps.
get_framebuffer(g, mem_data) ==
    /\ KernelFree
    /\ pc[g] = "idle"
    /\ LET fb == framebuffer[g]
           product == fb.w * fb.h * 4
           len == product % U32_MOD
           chk == SliceCheck(g, fb.addr, len)
           called == [NoView EXCEPT !.guest = g, !.mem = mem_data]
       IN  IF ~fb.set
           THEN fb_view' = called /\ UNCHANGED <<kernel, panic_msg>>
           ELSE \/ /\ product >= U32_MOD
                   /\ fb_view' = called
                   /\ kernel' = "panicked"
                   /\ panic_msg' = "attempt to multiply with overflow"
                \/ /\ chk # "ok"
                   /\ fb_view' = called
                   /\ kernel' = "panicked"
                   /\ panic_msg' \in SliceMsgs(chk)
                \/ /\ chk = "ok"
                   /\ fb_view' = [called EXCEPT
                                     !.some = TRUE, !.addr = fb.addr, !.len = len,
                                     !.w = fb.w, !.h = fb.h,
                                     !.bytes = [i \in 1..len |-> mem_data[fb.addr + i]]]
                   /\ UNCHANGED <<kernel, panic_msg>>
    /\ UNCHANGED <<storeVars, pc, stats, step_ret, tick, call_args, tcpVars, last_call>>

\* ------------------------------------------------------------ TCP stack
\* system.tcp_stack is shared by all guests.  connect hands out a socket
\* identity that is not in use (a released one may be handed out again) or
\* fails; close releases the identity.  The identities never handed out are
\* interchangeable: the lowest of them stands for all.

tcp_stack_fresh ==
    LET never == Handles \ (tcp_sockets \cup tcp_released)
    IN  {h \in never : \A k \in never : h <= k}

tcp_stack_connect == {None} \cup tcp_released \cup tcp_stack_fresh

tcp_stack_may(h) == IF h \in tcp_sockets THEN {FALSE, TRUE} ELSE {FALSE}

\* Ok(n) with n <= len, or Err (-1)
tcp_stack_transfer(h, len, room) ==
    {0 - 1} \cup (IF h \in tcp_sockets
                  THEN {n \in 0..len : n <= room}
                  ELSE {})

\* ------------------------------------------------------------ ABI stubs

AddrArgs == {0 - 1, 0, 28}
LenArgs == {0 - 1, 0, 2}
\* (addr, len): empty, inside one page, past one page, wrapping, huge
SliceArgs == {<<0, 0>>, <<0, 2>>, <<28, 2>>, <<0 - 1, 2>>, <<0, 0 - 1>>}
PortArgs == {0 - 1, 1, U16_MAX + 1}
IdArgs == {0 - 1, 0, 1}
NetIdArgs == {0, 1}
U32Vals == {0, 2, Pow2(GuestBits) - 1}
\* (addr, w, h): inside one page, past one page, above half of the address
\* range, a product that does not fit, negative values
FbArgs == {<<0, 1, 1>>, <<28, 2, 1>>, <<0 - 28, 1, 1>>, <<0, 4, 4>>, <<0 - 1, 0 - 1, 1>>}
\* contents of a linear memory of n bytes
MemPatterns(n) == {[i \in 1..n |-> (i + p) % 256] : p \in {0, 1}}
\* the 8 bytes a guest stores at consumed_addr: the samples 1 and 256
TimingVals == {<<1, 0, 0, 0, 0, 0, 0, 0>>, <<0, 1, 0, 0, 0, 0, 0, 0>>}
\* the keys a guest names its samples with: utf8 text of len bytes
KeyArgs(len) == IF len = 2 THEN {<<"u", "i">>} ELSE {<<>>}
\* t1 - t0 of a step call: no time or some time
FrametimeVals == {0, 1}

\* length of "RUST_BACKTRACE=full"
ENV_VAR_LEN == 19

UnimplementedStubs ==
    {"__main_argc_argv", "fd_filestat_set_size", "fd_read", "fd_readdir",
     "path_create_directory", "path_filestat_get", "path_link", "path_open",
     "path_readlink", "path_remove_directory", "path_rename",
     "path_unlink_file", "poll_oneoff", "sched_yield", "fd_close",
     "fd_filestat_get", "fd_prestat_dir_name", "fd_sync",
     "path_filestat_set_times", "fd_fdstat_set_flags"}

\* Errno::SUCCESS = 0, Errno::EBADFS = 8
ValueStubs == {"args_get", "proc_exit", "fd_fdstat_get", "fd_seek", "fd_prestat_get"}
StubValue(name) == IF name \in {"args_get", "proc_exit"} THEN 0 ELSE 8

CanCall(g) == kernel = "running" /\ GuestOnStack(g)

\* core::str::from_utf8(bytes) on the bytes of a guest range; valid: the
\* bytes are well-formed UTF-8
from_utf8_Lossy(valid) == "Ok"

from_utf8(valid) == IF valid THEN "Ok" ELSE "Err"

\* the call record once the stub has read the bytes it decodes
Decodes(rec, valid) == [rec EXCEPT !.not_utf8 = ~valid]

Call(g, stub) ==
    [NoCall EXCEPT !.guest = g, !.stub = stub, !.ctx = step_context[g].set]

CallId(g, stub, id) ==
    [Call(g, stub) EXCEPT !.has_id = TRUE, !.id = id,
                          !.known = (id \in DOMAIN sockets_store[g].sockets)]

ToStack(rec, h) ==
    [rec EXCEPT !.handle = h, !.owner = opened_by[h]]

Returns(rec, v) ==
    /\ last_call' = [rec EXCEPT !.has_ret = TRUE, !.ret = v]
    /\ UNCHANGED <<kernel, panic_msg>>

ReturnsUnit(rec) ==
    /\ last_call' = rec
    /\ UNCHANGED <<kernel, panic_msg>>

Panics(rec, msg) ==
    /\ last_call' = rec
    /\ kernel' = "panicked"
    /\ panic_msg' = msg
    /\ UNCHANGED <<storeVars, tcpVars>>

SlicePanics(rec, chk) ==
    \E m \in SliceMsgs(chk) : Panics([rec EXCEPT !.oob = TRUE], m)

NoContextPanics(rec) == Panics(rec, "No StepContext set")

\* linker_stub!(module, name, [args], ret): panics
wasi_stub_unimplemented(g, name) ==
    /\ CanCall(g)
    /\ UNCHANGED schedVars
    /\ Panics(Call(g, name), "WASM function is not implemented (stub)")

\* linker_stub!(module, name, [args], ret, value): returns the value
wasi_stub_value(g, name) ==
    /\ CanCall(g)
    /\ UNCHANGED <<schedVars, storeVars, tcpVars>>
    /\ IF name = "proc_exit"
       THEN ReturnsUnit(Call(g, name))
       ELSE Returns(Call(g, name), StubValue(name))

clock_time_get(g, time) ==
    /\ CanCall(g)
    /\ UNCHANGED schedVars
    /\ LET rec == Call(g, "clock_time_get")
           chk == SliceCheck(g, AsUsize(time), 8)
       IN  IF with_step_context(step_context[g]) = "panic" THEN NoContextPanics(rec)
           ELSE IF chk # "ok" THEN SlicePanics(rec, chk)
           ELSE Returns(rec, 0) /\ UNCHANGED <<storeVars, tcpVars>>

random_get(g, buf, buf_len) ==
    /\ CanCall(g)
    /\ UNCHANGED schedVars
    /\ LET rec == Call(g, "random_get")
           chk == SliceCheck(g, AsUsize(buf), AsUsize(buf_len))
       IN  IF AsUsize(buf_len) >= USIZE_MOD \div 2 THEN Panics(rec, "capacity overflow")
           ELSE IF with_step_context(step_context[g]) = "panic" THEN NoContextPanics(rec)
           ELSE IF chk # "ok" THEN SlicePanics(rec, chk)
           ELSE Returns(rec, 0) /\ UNCHANGED <<storeVars, tcpVars>>

\* "RUST_BACKTRACE=full" as bytes
ENV_VARS ==
    << <<82, 85, 83, 84, 95, 66, 65, 67, 75, 84, 82, 65, 67, 69, 61, 102, 117, 108, 108>> >>

\* u32::to_le_bytes(v)
to_le_bytes(v) == [i \in 1..4 |-> (v \div Pow2(8 * (i - 1))) % 256]

\* mem_data[addr..addr + bytes.len()].copy_from_slice(bytes)
Store(addr, bytes) == [addr |-> addr, bytes |-> bytes]

RECURSIVE string_data_size_NoNul(_, _)
string_data_size_NoNul(env_vars, n) ==
    IF n = 0 THEN 0 ELSE Len(env_vars[n]) + string_data_size_NoNul(env_vars, n - 1)

\* ENV_VARS.iter().map(|s| s.len() as u32 + 1).sum(), over the first n entries
RECURSIVE string_data_size(_, _)
string_data_size(env_vars, n) ==
    IF n = 0 THEN 0 ELSE Len(env_vars[n]) + 1 + string_data_size(env_vars, n - 1)

environ_sizes_get(g, environ_count, environ_buf_size) ==
    /\ CanCall(g)
    /\ UNCHANGED schedVars
    /\ LET rec == Call(g, "environ_sizes_get")
           chk1 == SliceCheck(g, AsUsize(environ_count), 4)
           chk2 == SliceCheck(g, AsUsize(environ_buf_size), 4)
           n_env_vars == Len(ENV_VARS)
           writes == <<Store(AsUsize(environ_count), to_le_bytes(n_env_vars)),
                       Store(AsUsize(environ_buf_size),
                             to_le_bytes(string_data_size(ENV_VARS, n_env_vars)))>>
       IN  IF chk1 # "ok" THEN SlicePanics(rec, chk1)
           ELSE IF chk2 # "ok" THEN SlicePanics(rec, chk2)
           ELSE /\ Returns([rec EXCEPT !.writes = writes], 0)
                /\ UNCHANGED <<storeVars, tcpVars>>

environ_get(g, environ, environ_buf) ==
    /\ CanCall(g)
    /\ UNCHANGED schedVars
    /\ LET rec == Call(g, "environ_get")
           chk1 == SliceCheck(g, AsUsize(environ), 4)
           chk2 == SliceCheck(g, AsUsize(environ_buf), ENV_VAR_LEN)
           nul == AsUsize(environ_buf) + ENV_VAR_LEN
           writes == <<Store(AsUsize(environ), to_le_bytes(AsUsize(environ_buf) % U32_MOD)),
                       Store(AsUsize(environ_buf), ENV_VARS[1]),
                       Store(nul, <<0>>)>>
       IN  IF chk1 # "ok" THEN SlicePanics(rec, chk1)
           ELSE IF chk2 # "ok" THEN SlicePanics(rec, chk2)
           ELSE IF nul >= MemBytes(g)
                THEN Panics([rec EXCEPT !.oob = TRUE], "index out of bounds")
           ELSE /\ Returns([rec EXCEPT !.writes = writes], 0)
                /\ UNCHANGED <<storeVars, tcpVars>>

args_sizes_get(g, argc, argv_buf_size) ==
    /\ CanCall(g)
    /\ UNCHANGED schedVars
    /\ LET rec == Call(g, "args_sizes_get")
           chk1 == SliceCheck(g, AsUsize(argc), 4)
           chk2 == SliceCheck(g, AsUsize(argv_buf_size), 4)
           writes == <<Store(AsUsize(argc), <<0, 0, 0, 0>>),
                       Store(AsUsize(argv_buf_size), <<0, 0, 0, 0>>)>>
       IN  IF chk1 # "ok" THEN SlicePanics(rec, chk1)
           ELSE IF chk2 # "ok" THEN SlicePanics(rec, chk2)
           ELSE /\ Returns([rec EXCEPT !.writes = writes], 0)
                /\ UNCHANGED <<storeVars, tcpVars>>

\* a line of n bytes of text, as a guest writes it to stdout
Line(n) == [i \in 1..n |-> IF i = n THEN "\n" ELSE "h"]

\* buf_ptr, buf_len: the u32 values the guest memory holds at iovs, iovs + 4;
\* utf8: whether the bytes of the buffer are valid UTF-8 (then they are Line(buf_len))
fd_write(g, iovs, nwritten, buf_ptr, buf_len, utf8) ==
    /\ CanCall(g)
    /\ UNCHANGED schedVars
    /\ LET rec == Call(g, "fd_write")
           chk1 == SliceCheck(g, AsUsize(iovs), 4)
           chk2 == SliceCheck(g, AsUsize(iovs) + 4, 4)
           chk3 == SliceCheck(g, buf_ptr, buf_len)
           chk4 == SliceCheck(g, AsUsize(nwritten), 4)
       IN  IF chk1 # "ok" THEN SlicePanics(rec, chk1)
           ELSE IF chk2 # "ok" THEN SlicePanics(rec, chk2)
           ELSE IF chk3 # "ok" THEN SlicePanics(rec, chk3)
           ELSE IF from_utf8(utf8) = "Err"
                THEN Panics(Decodes(rec, utf8), "called Result::unwrap() on an Err value")
           ELSE IF chk4 # "ok" THEN SlicePanics(Decodes(rec, utf8), chk4)
           ELSE /\ Returns([Decodes(rec, utf8) EXCEPT !.data = Line(buf_len)], 0)
                /\ UNCHANGED <<storeVars, tcpVars>>

WhiteSpace == {" ", "\t", "\n"}

\* str::trim_end: the text without its trailing white space
RECURSIVE trim_end(_)
trim_end(msg) ==
    IF msg # <<>> /\ msg[Len(msg)] \in WhiteSpace
    THEN trim_end(SubSeq(msg, 1, Len(msg) - 1))
    ELSE msg

\* TrackedContent::mutate: a new version token, and the content to write to
mutate(console) == [console EXCEPT !.version = @ + 1]

log_message_NoNewline(console, msg) ==
    [mutate(console) EXCEPT !.content = @ \o msg]

\* log_message: console_output.mutate(..) then write_str(msg), write_char('\n')
log_message(console, msg) ==
    [mutate(console) EXCEPT !.content = (@ \o msg) \o <<"\n">>]

\* the texts a guest logs: utf8 text of len bytes, with or without white space at its end
MsgArgs(len) ==
    IF len = 2 THEN {<<"h", "i">>, <<"h", " ">>, <<"\n", "\n">>} ELSE {Line(0)}

\* msg: the bytes the guest memory holds at [addr, addr + len), when they are
\* valid UTF-8
host_log(g, addr, len, utf8, msg) ==
    /\ CanCall(g)
    /\ UNCHANGED schedVars
    /\ LET rec == Call(g, "host_log")
           chk == get_wasm_mem_slice(g, addr, len)
       IN  IF chk # "ok" THEN SlicePanics(rec, chk)
           ELSE IF from_utf8(utf8) = "Err" THEN Panics(Decodes(rec, utf8), "Not UTF-8")
           ELSE IF with_step_context(step_context[g]) = "panic"
                THEN NoContextPanics(Decodes(rec, utf8))
           ELSE /\ console_output[g].version < MaxConsole
                /\ console_output' = [console_output EXCEPT ![g] = log_message(@, trim_end(msg))]
                /\ ReturnsUnit([Decodes(rec, utf8) EXCEPT !.data = msg])
                /\ UNCHANGED <<fuel, mem_pages, framebuffer, sockets_store,
                               step_context, net_recv, net_sent, tcpVars>>

\* the three stubs that copy a record of the context into guest memory
host_get_record(g, name, addr, size) ==
    /\ CanCall(g)
    /\ UNCHANGED schedVars
    /\ LET rec == Call(g, name)
       IN  IF with_step_context(step_context[g]) = "panic" THEN NoContextPanics(rec)
           ELSE IF write_to_wasm_mem(g, addr, size) # "ok"
                THEN Panics([rec EXCEPT !.oob = TRUE], "Failed to write to WASM memory")
           ELSE ReturnsUnit(rec) /\ UNCHANGED <<storeVars, tcpVars>>

host_get_input_state(g, addr) ==
    host_get_record(g, "host_get_input_state", addr, SizeOfInputState)

host_get_win_rect(g, addr) ==
    host_get_record(g, "host_get_win_rect", addr, SizeOfRect)

host_get_stylesheet(g, addr) ==
    host_get_record(g, "host_get_stylesheet", addr, SizeOfStyleSheet)

host_set_framebuffer(g, addr, w, h) ==
    /\ CanCall(g)
    /\ UNCHANGED schedVars
    /\ framebuffer' = [framebuffer EXCEPT ![g] =
                          [set |-> TRUE, addr |-> AsUsize(addr),
                           w |-> AsU32(w), h |-> AsU32(h)]]
    /\ ReturnsUnit(Call(g, "host_set_framebuffer"))
    /\ UNCHANGED <<fuel, mem_pages, sockets_store, step_context, net_recv,
                   net_sent, console_output, tcpVars>>

host_get_time(g, buf) ==
    /\ CanCall(g)
    /\ UNCHANGED schedVars
    /\ LET rec == Call(g, "host_get_time")
           chk == SliceCheck(g, AsUsize(buf), 8)
       IN  IF with_step_context(step_context[g]) = "panic" THEN NoContextPanics(rec)
           ELSE IF chk # "ok" THEN SlicePanics(rec, chk)
           ELSE ReturnsUnit(rec) /\ UNCHANGED <<storeVars, tcpVars>>

consumed_fuel_Remaining(remaining) == remaining

\* let consumed = STEP_FUEL - remaining
consumed_fuel(remaining) == STEP_FUEL - remaining

\* consumed is written as 8 bytes
host_get_consumed_fuel(g, consumed_addr) ==
    /\ CanCall(g)
    /\ UNCHANGED schedVars
    /\ LET rec == Call(g, "host_get_consumed_fuel")
       IN  IF STEP_FUEL - fuel[g] < 0
           THEN Panics(rec, "attempt to subtract with overflow")
           ELSE IF write_to_wasm_mem(g, consumed_addr, 8) # "ok"
                THEN Panics([rec EXCEPT !.oob = TRUE], "Failed to write to WASM memory")
           ELSE /\ ReturnsUnit([rec EXCEPT !.value = consumed_fuel(fuel[g])])
                /\ UNCHANGED <<storeVars, tcpVars>>

\* u64::from_le_bytes(buf)
RECURSIVE from_le_bytes(_)
from_le_bytes(buf) ==
    IF buf = <<>> THEN 0 ELSE Head(buf) + 256 * from_le_bytes(Tail(buf))

timings_insert_KeepFirst(timings, key, consumed) ==
    [k \in (DOMAIN timings) \cup {key} |->
        IF k \in DOMAIN timings THEN timings[k] ELSE consumed]

\* BTreeMap::insert(key, consumed)
timings_insert(timings, key, consumed) ==
    [k \in (DOMAIN timings) \cup {key} |-> IF k = key THEN consumed ELSE timings[k]]

\* utf8: whether the key bytes are valid UTF-8 (then they are key);
\* consumed_buf: the 8 bytes the guest memory holds at consumed_addr
host_save_timing(g, key_addr, key_len, consumed_addr, utf8, key, consumed_buf) ==
    /\ CanCall(g)
    /\ UNCHANGED schedVars
    /\ LET rec == Call(g, "host_save_timing")
           chk1 == get_wasm_mem_slice(g, key_addr, key_len)
           chk2 == get_wasm_mem_slice(g, consumed_addr, 8)
       IN  IF chk1 # "ok" THEN SlicePanics(rec, chk1)
           ELSE IF from_utf8(utf8) = "Err" THEN Panics(Decodes(rec, utf8), "Invalid key")
           ELSE IF chk2 # "ok" THEN SlicePanics(Decodes(rec, utf8), chk2)
           ELSE IF with_step_context(step_context[g]) = "panic"
                THEN NoContextPanics(Decodes(rec, utf8))
           ELSE /\ step_context' = [step_context EXCEPT ![g].timings =
                                       timings_insert(@, key, from_le_bytes(consumed_buf))]
                /\ ReturnsUnit([Decodes(rec, utf8) EXCEPT !.data = key,
                                                          !.sample = consumed_buf])
                /\ UNCHANGED <<fuel, mem_pages, framebuffer, sockets_store,
                               net_recv, net_sent, console_output, tcpVars>>

host_qemu_dump(g, addr, len) ==
    /\ CanCall(g)
    /\ UNCHANGED schedVars
    /\ LET rec == Call(g, "host_qemu_dump")
           chk == get_wasm_mem_slice(g, addr, len)
       IN  IF chk # "ok" THEN SlicePanics(rec, chk)
           ELSE ReturnsUnit(rec) /\ UNCHANGED <<storeVars, tcpVars>>

\* ------------------------------------------------------------ TCP stubs

\* number of successful host_tcp_connect calls of the run so far
RECURSIVE Connects(_)
Connects(n) == IF n = 0 THEN 0 ELSE Len(issued[n]) + Connects(n - 1)

host_tcp_connect(g, ip_addr, port) ==
    /\ CanCall(g)
    /\ UNCHANGED schedVars
    /\ LET rec == Call(g, "host_tcp_connect")
       IN  IF port < 0 \/ port > U16_MAX THEN Panics(rec, "Invalid port value")
           ELSE IF with_step_context(step_context[g]) = "panic" THEN NoContextPanics(rec)
           ELSE \E socket_handle \in tcp_stack_connect :
                  IF socket_handle = None
                  THEN Returns(rec, 0 - 1) /\ UNCHANGED <<storeVars, tcpVars>>
                  ELSE LET added == add_handle(sockets_store[g], socket_handle)
                       IN  /\ Connects(NGuests) < MaxConnects
                           /\ tcp_sockets' = tcp_sockets \cup {socket_handle}
                           /\ tcp_released' = tcp_released \ {socket_handle}
                           /\ opened_by' = [opened_by EXCEPT ![socket_handle] = g]
                           /\ sockets_store' = [sockets_store EXCEPT ![g] = added.store]
                           /\ issued' = [issued EXCEPT ![g] = Append(@, added.new_id)]
                           /\ Returns(rec, added.new_id)
                           /\ UNCHANGED <<fuel, mem_pages, framebuffer, step_context,
                                          net_recv, net_sent, console_output>>

host_tcp_may(g, name, handle_id) ==
    /\ CanCall(g)
    /\ UNCHANGED schedVars
    /\ LET rec == CallId(g, name, handle_id)
           socket_handle == get_handle(sockets_store[g], handle_id)
       IN  IF socket_handle = None THEN Panics(rec, "No TCP connection")
           ELSE IF with_step_context(step_context[g]) = "panic" THEN NoContextPanics(rec)
           ELSE \E b \in tcp_stack_may(socket_handle) :
                  /\ Returns(ToStack(rec, socket_handle), IF b THEN 1 ELSE 0)
                  /\ UNCHANGED <<storeVars, tcpVars>>

host_tcp_may_send(g, handle_id) == host_tcp_may(g, "host_tcp_may_send", handle_id)

host_tcp_may_recv(g, handle_id) == host_tcp_may(g, "host_tcp_may_recv", handle_id)

net_add_Skip(counter, n) == counter

\* net_sent += written_len, net_recv += read_len
net_add(counter, n) == counter + n

host_tcp_write(g, addr, len, handle_id) ==
    /\ CanCall(g)
    /\ UNCHANGED schedVars
    /\ LET rec == [CallId(g, "host_tcp_write", handle_id) EXCEPT !.len = AsUsize(len)]
           chk == get_wasm_mem_slice(g, addr, len)
           socket_handle == get_handle(sockets_store[g], handle_id)
       IN  IF chk # "ok" THEN SlicePanics(rec, chk)
           ELSE IF socket_handle = None THEN Panics(rec, "No TCP connection")
           ELSE IF with_step_context(step_context[g]) = "panic" THEN NoContextPanics(rec)
           ELSE \E n \in tcp_stack_transfer(socket_handle, AsUsize(len),
                                            MaxNet - net_sent[g]) :
                  /\ Returns(ToStack(rec, socket_handle), n)
                  /\ net_sent' = [net_sent EXCEPT ![g] = IF n < 0 THEN @ ELSE net_add(@, n)]
                  /\ UNCHANGED <<fuel, mem_pages, framebuffer, sockets_store,
                                 step_context, net_recv, console_output, tcpVars>>

host_tcp_read(g, addr, len, handle_id) ==
    /\ CanCall(g)
    /\ UNCHANGED schedVars
    /\ LET rec == [CallId(g, "host_tcp_read", handle_id) EXCEPT !.len = AsUsize(len)]
           socket_handle == get_handle(sockets_store[g], handle_id)
       IN  IF AsUsize(len) >= USIZE_MOD \div 2 THEN Panics(rec, "capacity overflow")
           ELSE IF socket_handle = None THEN Panics(rec, "No TCP connection")
           ELSE IF with_step_context(step_context[g]) = "panic" THEN NoContextPanics(rec)
           ELSE \E n \in tcp_stack_transfer(socket_handle, AsUsize(len),
                                            MaxNet - net_recv[g]) :
                  LET sent == ToStack(rec, socket_handle)
                      chk == SliceCheck(g, AsUsize(addr), n)
                  IN  IF n < 0
                      THEN Returns(sent, 0 - 1) /\ UNCHANGED <<storeVars, tcpVars>>
                      ELSE IF chk # "ok" THEN SlicePanics(sent, chk)
                      ELSE /\ Returns(sent, n)
                           /\ net_recv' = [net_recv EXCEPT ![g] = net_add(@, n)]
                           /\ UNCHANGED <<fuel, mem_pages, framebuffer, sockets_store,
                                          step_context, net_sent, console_output,
                                          tcpVars>>

\* closes the socket; the registry has no operation that removes an entry
host_tcp_close(g, handle_id) ==
    /\ CanCall(g)
    /\ UNCHANGED schedVars
    /\ LET rec == CallId(g, "host_tcp_close", handle_id)
           socket_handle == get_handle(sockets_store[g], handle_id)
       IN  IF socket_handle = None THEN Panics(rec, "No TCP connection")
           ELSE IF with_step_context(step_context[g]) = "panic" THEN NoContextPanics(rec)
           ELSE /\ tcp_sockets' = tcp_sockets \ {socket_handle}
                /\ tcp_released' = tcp_released \cup {socket_handle}
                /\ opened_by' = [opened_by EXCEPT ![socket_handle] = 0]
                /\ ReturnsUnit(ToStack(rec, socket_handle))
                /\ UNCHANGED <<storeVars, issued>>

\* ------------------------------------------------------------ specification

Lifecycle(g) ==
    \/ \E has_start \in BOOLEAN, fuel0 \in {0, STEP_FUEL} :
          instantiate_app(g, has_start, fuel0, NoInput, NoRect)
    \/ start_return(g)
    \/ init_return(g)
    \/ \E is_paused \in BOOLEAN : step(g, is_paused, NoInput, NoRect, TRUE)
    \/ \E frametime \in FrametimeVals : paused_return(g, frametime)
    \/ \E frametime \in FrametimeVals : step_return(g, frametime)
    \/ \E frametime \in FrametimeVals : guest_trap(g, frametime)

Compute(g) ==
    \/ \E frametime \in FrametimeVals : guest_run(g, frametime)
    \/ guest_grow(g)

WasiStubs(g) ==
    \/ \E name \in UnimplementedStubs : wasi_stub_unimplemented(g, name)
    \/ \E name \in ValueStubs : wasi_stub_value(g, name)
    \/ \E a \in AddrArgs : clock_time_get(g, a)
    \/ \E a \in AddrArgs, l \in LenArgs : random_get(g, a, l)
    \/ \E a, b \in AddrArgs : environ_sizes_get(g, a, b)
    \/ \E a, b \in AddrArgs : environ_get(g, a, b)
    \/ \E a, b \in AddrArgs : args_sizes_get(g, a, b)
    \/ \E a, b \in AddrArgs, p, l \in U32Vals, utf8 \in BOOLEAN :
          fd_write(g, a, b, p, l, utf8)

UiStubs(g) ==
    \/ \E a \in AddrArgs : host_get_input_state(g, a)
    \/ \E a \in AddrArgs : host_get_win_rect(g, a)
    \/ \E a \in AddrArgs : host_get_stylesheet(g, a)
    \/ \E f \in FbArgs : host_set_framebuffer(g, f[1], f[2], f[3])

\* a module that only logs
LogStubs(g) ==
    \/ \E s \in SliceArgs, utf8 \in BOOLEAN :
          \E msg \in MsgArgs(s[2]) : host_log(g, s[1], s[2], utf8, msg)
    \/ \E s \in SliceArgs : host_qemu_dump(g, s[1], s[2])

\* a module that only registers its framebuffer, and the compositor
FbStubs(g) ==
    \/ \E f \in FbArgs : host_set_framebuffer(g, f[1], f[2], f[3])
    \/ guest_grow(g)
    \/ \E mem_data \in MemPatterns(MemBytes(g)) : get_framebuffer(g, mem_data)

\* global input states and window rectangles the compositor steps with: a
\* click or no event, a pointer inside or outside the window
InputArgs == {InputState(5, 7, <<"click">>), InputState(0, 1, <<"click", "key">>),
              InputState(2, 3, <<>>)}

RectArgs == {Rect(1, 2, 4, 4), Rect(0, 0, 8, 8)}

\* a windowed module: stepped in the foreground or in the background, it
\* reads its input snapshot and its window rectangle
InputStubs(g) ==
    \/ \E input_state \in InputArgs, win_rect \in RectArgs, is_foreground \in BOOLEAN :
          step(g, FALSE, input_state, win_rect, is_foreground)
    \/ host_get_input_state(g, 0)
    \/ host_get_win_rect(g, 0)

TimeStubs(g) ==
    \/ \E a \in AddrArgs : host_get_time(g, a)
    \/ \E a \in AddrArgs : host_get_consumed_fuel(g, a)
    \/ \E s \in SliceArgs, b \in AddrArgs, utf8 \in BOOLEAN, c \in TimingVals :
          \E key \in KeyArgs(s[2]) : host_save_timing(g, s[1], s[2], b, utf8, key, c)

TcpStubs(g) ==
    \/ \E port \in PortArgs : host_tcp_connect(g, 1, port)
    \/ \E id \in IdArgs : host_tcp_close(g, id)

TcpSendStubs(g) ==
    \/ \E id \in IdArgs : host_tcp_may_send(g, id)
    \/ \E s \in SliceArgs, id \in IdArgs : host_tcp_write(g, s[1], s[2], id)

TcpRecvStubs(g) ==
    \/ \E id \in IdArgs : host_tcp_may_recv(g, id)
    \/ \E s \in SliceArgs, id \in IdArgs : host_tcp_read(g, s[1], s[2], id)

Apps == 1..scenario.apps

Next ==
    /\ UNCHANGED <<scenario, main_loop, desktop, otherVars>>
    /\ \E g \in Apps :
          \/ Lifecycle(g)
          \/ scenario.imports \in {"none", "wasi", "ui", "time"} /\ Compute(g)
          \/ scenario.imports = "wasi" /\ WasiStubs(g)
          \/ scenario.imports = "ui" /\ UiStubs(g)
          \/ scenario.imports = "time" /\ TimeStubs(g)
          \/ scenario.imports = "fb" /\ FbStubs(g)
          \/ scenario.imports = "input" /\ InputStubs(g)
          \/ scenario.imports = "log" /\ LogStubs(g)
          \/ scenario.imports \in {"tcp_send", "tcp_recv"} /\ TcpStubs(g)
          \/ scenario.imports = "tcp_send" /\ TcpSendStubs(g)
          \/ scenario.imports = "tcp_recv" /\ TcpRecvStubs(g)

Spec == Init /\ [][Next]_vars

\* Several applications that share the TCP stack; their modules have no
\* start function, they are never paused and they transfer empty buffers.
NextNet ==
    /\ UNCHANGED <<scenario, main_loop, desktop, otherVars>>
    /\ \E g \in Apps :
          \/ instantiate_app(g, FALSE, 0, NoInput, NoRect)
          \/ init_return(g)
          \/ step(g, FALSE, NoInput, NoRect, TRUE)
          \/ step_return(g, 0)
          \/ host_tcp_connect(g, 1, 1)
          \/ \E id \in NetIdArgs : host_tcp_may_send(g, id)
          \/ \E id \in NetIdArgs : host_tcp_may_recv(g, id)
          \/ \E id \in NetIdArgs : host_tcp_write(g, 0, 0, id)
          \/ \E id \in NetIdArgs : host_tcp_read(g, 0, 0, id)
          \/ \E id \in NetIdArgs : host_tcp_close(g, id)

SpecNet == InitNet /\ [][NextNet]_vars

\* ------------------------------------------------------------ main loop

\* one pass of the loop begins: update_pointer (pointer_state: what the
\* events of the input device make of the pointer), server.update(), the
\* wallpaper, and update_apps is entered
main_loop_begin(pointer_state) ==
    /\ kernel = "running"
    /\ main_loop.pc = "loop"
    /\ main_loop.frames < MaxFrames
    /\ main_loop' = [main_loop EXCEPT !.pc = "update_apps",
                                       !.pointer_state = pointer_state,
                                       !.i = 1, !.called = <<>>,
                                       !.frames = @ + 1]

\* Rect::check_in (applib)
check_in(rect, x, y) ==
    /\ x >= rect.x0 /\ x < rect.x0 + rect.w
    /\ y >= rect.y0 /\ y < rect.y0 + rect.h

\* the decoration of a window: 5 pixels around it and a title bar of 30
deco_rect(rect) == Rect(rect.x0 - 5, rect.y0 - 35, rect.w + 2 * 5, rect.h + 2 * 5 + 30)

update_apps_call_Always(app) == TRUE

\* if app.is_open { .. call_app(handle, &app.descriptor) }
update_apps_call(app) == app.is_open

update_apps_grab_Sticky(app, pointer_state) ==
    IF app.grab_pos.some
    THEN [app EXCEPT !.rect.x0 = pointer_state.x - app.grab_pos.dx,
                     !.rect.y0 = pointer_state.y - app.grab_pos.dy]
    ELSE IF pointer_state.clicked
            /\ check_in(deco_rect(app.rect), pointer_state.x, pointer_state.y)
    THEN [app EXCEPT !.grab_pos = SomeGrab(pointer_state.x - app.rect.x0,
                                           pointer_state.y - app.rect.y0)]
    ELSE app

\* `if let Some((dx, dy)) = app.grab_pos { .. } else { .. }`: a grabbed
\* window follows the pointer while the button is held and is released with
\* the button; a window that is not grabbed is grabbed by a click on its
\* decoration
update_apps_grab(app, pointer_state) ==
    IF app.grab_pos.some
    THEN IF pointer_state.clicked
         THEN [app EXCEPT !.rect.x0 = pointer_state.x - app.grab_pos.dx,
                          !.rect.y0 = pointer_state.y - app.grab_pos.dy]
         ELSE [app EXCEPT !.grab_pos = NoGrab]
    ELSE IF pointer_state.clicked
            /\ check_in(deco_rect(app.rect), pointer_state.x, pointer_state.y)
    THEN [app EXCEPT !.grab_pos = SomeGrab(pointer_state.x - app.rect.x0,
                                           pointer_state.y - app.rect.y0)]
    ELSE app

\* the body of `for app in applications.iter_mut()` for application i up to
\* call_app
update_apps_body ==
    /\ kernel = "running"
    /\ main_loop.pc = "update_apps"
    /\ main_loop.i <= NApplications
    /\ LET i == main_loop.i
           app == main_loop.applications[i]
           pointer_state == main_loop.pointer_state
           hover == check_in(launch_rect(i), pointer_state.x, pointer_state.y)
           opened == [app EXCEPT !.is_open = @ \/ (hover /\ pointer_state.clicked)]
       IN  IF update_apps_call(opened)
           THEN main_loop' =
                  [main_loop EXCEPT
                     !.applications[i] = update_apps_grab(opened, pointer_state),
                     !.pc = "call_app",
                     !.called = Append(@, i)]
           ELSE main_loop' = [main_loop EXCEPT !.applications[i] = opened, !.i = i + 1]

\* call_app returns: the for loop goes on with the next application
call_app_return ==
    /\ kernel = "running"
    /\ main_loop.pc = "call_app"
    /\ main_loop' = [main_loop EXCEPT !.pc = "update_apps", !.i = @ + 1]

\* update_apps returns: draw_cursor, virtio_gpu.flush(), the pass is over
main_loop_end ==
    /\ kernel = "running"
    /\ main_loop.pc = "update_apps"
    /\ main_loop.i > NApplications
    /\ main_loop' = [main_loop EXCEPT !.pc = "loop"]

\* where update_pointer leaves the pointer: the corner of the display, the
\* two launch rectangles, the title bars of the two windows where main
\* opens them
PointerPositions == {<<0, 0>>, <<110, 110>>, <<110, 160>>, <<210, 170>>, <<610, 170>>}

NextMain ==
    /\ UNCHANGED <<scenario, wasmVars, desktop, otherVars>>
    /\ \/ \E p \in PointerPositions, clicked \in BOOLEAN :
            main_loop_begin(PointerState(p[1], p[2], clicked))
       \/ update_apps_body
       \/ call_app_return
       \/ main_loop_end

SpecMain == InitMain /\ [][NextMain]_vars

\* ------------------------------------------------------------ caller of step

\* the caller's input state and window rectangle after step returned: step
\* takes &InputState and &Rect and works on input_state.clone()
caller_input_state_InPlace(input_state, win_rect, is_foreground) ==
    relative_input_state(input_state, win_rect, is_foreground)

caller_input_state(input_state, win_rect, is_foreground) == input_state

caller_win_rect(win_rect) == win_rect

\* a tick begins: the caller has polled the devices into its input state
tick_begin(input_state) ==
    /\ KernelFree
    /\ \A g \in Guests : pc[g] # "none"
    /\ desktop' = [desktop EXCEPT !.input_state = input_state,
                                  !.tick_input = input_state, !.stepped = {}]
    /\ UNCHANGED wasmVars

\* the caller steps application g with its input state and the window
\* rectangle of g
tick_step(g, is_foreground) ==
    /\ g \notin desktop.stepped
    /\ desktop.tick_input # NoInput
    /\ step(g, FALSE, desktop.input_state, desktop.win_rects[g], is_foreground)
    /\ desktop' = [desktop EXCEPT
            !.stepped = @ \cup {g},
            !.input_state = caller_input_state(@, desktop.win_rects[g], is_foreground),
            !.win_rects[g] = caller_win_rect(@)]

NextTick ==
    /\ UNCHANGED <<scenario, main_loop, otherVars>>
    /\ \/ \E input_state \in InputArgs : tick_begin(input_state)
       \/ \E g \in Apps :
             \/ instantiate_app(g, FALSE, 0, NoInput, NoRect) /\ UNCHANGED desktop
             \/ init_return(g) /\ UNCHANGED desktop
             \/ \E is_foreground \in BOOLEAN : tick_step(g, is_foreground)
             \/ host_get_input_state(g, 0) /\ UNCHANGED desktop
             \/ step_return(g, 0) /\ UNCHANGED desktop

SpecTick == InitTick /\ [][NextTick]_vars

\* ------------------------------------------------------------ VirtioNetwork

\* size_of::<VirtioNetHdr>(): two u8 and five u16 fields, repr(C)
SizeOfVirtioNetHdr == 12

Zeros(n) == [i \in 1..n |-> 0]

\* VirtioNetPacket { hdr, data }
VirtioNetPacket(hdr, data) == [hdr |-> hdr, data |-> data]

\* to_bytes(msg), from_bytes(buf): the repr(C) image of a VirtioNetPacket
to_bytes(msg) == msg.hdr \o msg.data

from_bytes(buf) ==
    VirtioNetPacket(SubSeq(buf, 1, SizeOfVirtioNetHdr),
                    SubSeq(buf, SizeOfVirtioNetHdr + 1, Len(buf)))

\* QueueMessage::DevWriteOnly { size }, QueueMessage::DevReadOnly { buf }
DevWriteOnly(size) == [kind |-> "DevWriteOnly", buf |-> Zeros(size)]
DevReadOnly(buf) == [kind |-> "DevReadOnly", buf |-> buf]

\* size_of::<VirtioNetPacket>()
max_buf_size == SizeOfVirtioNetHdr + MAX_PACKET_SIZE

\* buffers the queue owns: offered to the device or not popped yet
Owned(q) == Len(q.avail) + Len(q.used)

\* VirtioQueue::try_push: None when no descriptor is free
try_push(q, msg) ==
    IF Owned(q) < Q_SIZE
    THEN [some |-> TRUE, q |-> [q EXCEPT !.avail = Append(@, msg)]]
    ELSE [some |-> FALSE, q |-> q]

\* VirtioQueue::try_pop: the oldest used buffer, None when there is none
try_pop(q) ==
    IF q.used # <<>>
    THEN [some |-> TRUE, q |-> [q EXCEPT !.used = Tail(@)], buf |-> Head(q.used).buf]
    ELSE [some |-> FALSE, q |-> q, buf |-> <<>>]

\* one pass of `while receiveq.try_push(msg.clone()).is_some() {}` in new
VirtioNetwork_new ==
    /\ kernel = "running"
    /\ virtio_net.pc = "new"
    /\ LET push == try_push(virtio_net.receiveq, DevWriteOnly(max_buf_size))
       IN  virtio_net' =
              IF push.some THEN [virtio_net EXCEPT !.receiveq = push.q]
              ELSE [virtio_net EXCEPT !.pc = "ready"]
    /\ UNCHANGED <<kernel, panic_msg>>

try_recv_push_Skip(q, msg) == [some |-> TRUE, q |-> q]

\* receiveq.try_push(vec![DevWriteOnly { size }]) of try_recv
try_recv_push(q, msg) == try_push(q, msg)

try_recv ==
    /\ kernel = "running"
    /\ virtio_net.pc = "ready"
    /\ LET pop == try_pop(virtio_net.receiveq)
           push == try_recv_push(pop.q, DevWriteOnly(max_buf_size))
           virtio_packet == from_bytes(pop.buf)
       IN  IF ~pop.some
           THEN /\ virtio_net' = [virtio_net EXCEPT
                        !.ret = [fn |-> "try_recv", some |-> FALSE, value |-> <<>>]]
                /\ UNCHANGED <<kernel, panic_msg>>
           ELSE IF ~push.some
           THEN /\ kernel' = "panicked"
                /\ panic_msg' = "called Option::unwrap() on a None value"
                /\ UNCHANGED virtio_net
           ELSE /\ virtio_net' = [virtio_net EXCEPT
                        !.receiveq = push.q,
                        !.ret = [fn |-> "try_recv", some |-> TRUE,
                                 value |-> virtio_packet.data]]
                /\ UNCHANGED <<kernel, panic_msg>>

try_send_data_NoPadding(value) == value

\* let mut data = [0x00; MAX_PACKET_SIZE]; data[0..value.len()].copy_from_slice(..)
try_send_data(value) ==
    [i \in 1..MAX_PACKET_SIZE |-> IF i <= Len(value) THEN value[i] ELSE 0]

try_send(value) ==
    /\ kernel = "running"
    /\ virtio_net.pc = "ready"
    /\ IF ~(Len(value) <= MAX_PACKET_SIZE)
       THEN /\ kernel' = "panicked"
            /\ panic_msg' = "assertion failed: value.len() <= MAX_PACKET_SIZE"
            /\ virtio_net' = [virtio_net EXCEPT
                    !.ret = [fn |-> "try_send", some |-> FALSE, value |-> value]]
       ELSE LET msg == VirtioNetPacket(Zeros(SizeOfVirtioNetHdr), try_send_data(value))
                push == try_push(virtio_net.transmitq, DevReadOnly(to_bytes(msg)))
            IN  /\ virtio_net' = [virtio_net EXCEPT
                        !.transmitq = push.q,
                        !.ret = [fn |-> "try_send", some |-> push.some, value |-> value]]
                /\ UNCHANGED <<kernel, panic_msg>>

\* The device fills the oldest buffer of the receive queue with a packet
\* from the wire and hands it back.
device_receive(data) ==
    /\ kernel = "running"
    /\ virtio_net.receiveq.avail # <<>>
    /\ virtio_net' = [virtio_net EXCEPT
            !.receiveq = [avail |-> Tail(@.avail),
                          used |-> Append(@.used,
                              [kind |-> "DevWriteOnly",
                               buf |-> to_bytes(VirtioNetPacket(
                                           Zeros(SizeOfVirtioNetHdr), data))])]]
    /\ UNCHANGED <<kernel, panic_msg>>

\* The device takes the oldest buffer of the transmit queue; on a loopback
\* wire the same bytes come back through the receive queue.  try_send never
\* pops the transmit queue: whether the descriptor of a sent buffer is free
\* again (reclaimed) or stays with the queue is decided in virtio/mod.rs.
device_transmit(loopback, reclaimed) ==
    /\ kernel = "running"
    /\ virtio_net.transmitq.avail # <<>>
    /\ loopback => virtio_net.receiveq.avail # <<>>
    /\ LET sent == Head(virtio_net.transmitq.avail)
       IN  virtio_net' = [virtio_net EXCEPT
              !.transmitq = [avail |-> Tail(@.avail),
                             used |-> IF reclaimed THEN @.used ELSE Append(@.used, sent)],
              !.receiveq =
                  IF loopback
                  THEN [avail |-> Tail(@.avail),
                        used |-> Append(@.used, [kind |-> "DevWriteOnly", buf |-> sent.buf])]
                  ELSE @]
    /\ UNCHANGED <<kernel, panic_msg>>

\* payloads of one byte, of MAX_PACKET_SIZE bytes and of one byte more,
\* none of the bytes 0
Payloads == {[i \in 1..n |-> i] : n \in {1, MAX_PACKET_SIZE, MAX_PACKET_SIZE + 1}}

\* a packet from the wire
WireData == {[i \in 1..MAX_PACKET_SIZE |-> 7]}

NextVirtio ==
    /\ UNCHANGED <<scenario, storeVars, schedVars, tcpVars, last_call, main_loop, desktop,
                   pointer, webview, page_layout, canvas, pixel_data>>
    /\ \/ VirtioNetwork_new
       \/ try_recv
       \/ \E value \in Payloads : try_send(value)
       \/ \E data \in WireData : device_receive(data)
       \/ \E loopback, reclaimed \in BOOLEAN : device_transmit(loopback, reclaimed)

InitVirtio == scenario = VirtioScenario /\ InitState

SpecVirtio == InitVirtio /\ [][NextVirtio]_vars

\* new is straight-line code of the single-threaded kernel: its loop goes on
\* until it exits
SpecVirtioFair == SpecVirtio /\ WF_vars(NextVirtio /\ VirtioNetwork_new)

\* ------------------------------------------------------------ update_pointer

I32_MAX == Pow2(PointerBits - 1) - 1
I32_MIN == 0 - Pow2(PointerBits - 1)

\* two's complement wrap of an integer to i32
WrapI32(v) == ((v - I32_MIN) % Pow2(PointerBits)) + I32_MIN

i32_min(a, b) == IF a < b THEN a ELSE b
i32_max(a, b) == IF a > b THEN a ELSE b

\* `event.value as i32`
value_as_i32(value) == WrapI32(value)

\* status.x + dx: with overflow checks a sum outside i32 panics, without
\* them it wraps
update_pointer_add(a, b, overflow_checks) ==
    IF a + b \in I32_MIN..I32_MAX THEN [panic |-> FALSE, v |-> a + b]
    ELSE IF overflow_checks THEN [panic |-> TRUE, v |-> 0]
    ELSE [panic |-> FALSE, v |-> WrapI32(a + b)]

\* one pass of the loop of update_pointer, for one event of virtio_input.poll()
update_pointer(dims, event) ==
    /\ kernel = "running"
    /\ LET w == dims[1]
           h == dims[2]
           status == pointer.status
           d == value_as_i32(event.value)
           sum == IF event.code = 0
                  THEN update_pointer_add(status.x, d, pointer.overflow_checks)
                  ELSE update_pointer_add(status.y, d, pointer.overflow_checks)
       IN  IF event.type = 2 /\ sum.panic
           THEN /\ kernel' = "panicked"
                /\ panic_msg' = "attempt to add with overflow"
                /\ pointer' = [pointer EXCEPT !.event = event]
           ELSE /\ pointer' = [pointer EXCEPT
                        !.event = event,
                        !.status =
                            IF event.type = 2
                            THEN IF event.code = 0
                                 THEN [@ EXCEPT !.x = i32_max(0, i32_min(w - 1, sum.v))]
                                 ELSE [@ EXCEPT !.y = i32_max(0, i32_min(h - 1, sum.v))]
                            ELSE IF event.type = 1
                            THEN [@ EXCEPT !.clicked = (event.value = 1)]
                            ELSE @]
                /\ UNCHANGED <<kernel, panic_msg>>

\* events of the input device: sync (0), key or button (1), relative motion
\* (2) and absolute motion (3); the axes 0 and 1; values around 0 and at
\* the ends of the 32-bit range
EventTypes == 0..3
EventCodes == {0, 1}
EventValues == {0, 1, 2, Pow2(PointerBits - 1) - 1, Pow2(PointerBits - 1), Pow2(PointerBits) - 1}

NextPointer ==
    /\ UNCHANGED <<scenario, storeVars, schedVars, tcpVars, last_call, main_loop, desktop,
                   virtio_net, webview, page_layout, canvas, pixel_data>>
    /\ \E type \in EventTypes, code \in EventCodes, value \in EventValues :
          update_pointer(<<DisplayW, DisplayH>>, [type |-> type, code |-> code, value |-> value])

InitPointer == scenario = PointerScenario /\ InitState

SpecPointer == InitPointer /\ [][NextPointer]_vars

\* ------------------------------------------------------------ Webview

\* i64::max, i64::min
i64_max(a, b) == IF a >= b THEN a ELSE b
i64_min(a, b) == IF a <= b THEN a ELSE b

\* Rect::bounding_box and Rect::check_contains_point (applib)
bounding_box(r, acc) ==
    LET x0 == i64_min(r.x0, acc.x0)
        y0 == i64_min(r.y0, acc.y0)
        x1 == i64_max(r.x0 + r.w, acc.x0 + acc.w)
        y1 == i64_max(r.y0 + r.h, acc.y0 + acc.h)
    IN  Rect(x0, y0, x1 - x0, y1 - y0)

check_contains_point(rect, x, y) == check_in(rect, x, y)

\* nodes of the document tree (scraper): elements, texts, the doctype
Element(name, href, children) ==
    [kind |-> "Element", name |-> name, href |-> href, text |-> <<>>, children |-> children]
TextNode(text) ==
    [kind |-> "Text", name |-> "", href |-> NoUrl, text |-> text, children |-> <<>>]
Doctype ==
    [kind |-> "Doctype", name |-> "", href |-> NoUrl, text |-> <<>>, children |-> <<>>]

check_is_whitespace(text) == \A i \in DOMAIN text : text[i] \in WhiteSpace

\* the orientation of a container (render.rs)
render_orientation(name) ==
    IF name \in {"tbody", "table"} THEN "Vertical" ELSE "Horizontal"

RECURSIVE fold_bounding_box(_, _, _)
fold_bounding_box(children, k, acc) ==
    IF k > Len(children) THEN acc
    ELSE fold_bounding_box(children, k + 1, bounding_box(children[k].rect, acc))

\* Webview::parse_node(node, x0, y0) with self.next_node_id = next_id:
\* None, or the layout node; and next_node_id afterwards.  render_children
\* is the for loop over node.children() from child k on.
RECURSIVE render_parse_node(_, _, _, _)
RECURSIVE render_children(_, _, _, _, _, _, _)
render_children(html_children, k, child_x0, child_y0, orientation, children, next_id) ==
    IF k > Len(html_children) THEN [children |-> children, next_id |-> next_id]
    ELSE LET res == render_parse_node(html_children[k], child_x0, child_y0, next_id)
         IN  IF res.some
             THEN render_children(html_children, k + 1,
                      IF orientation = "Horizontal" THEN child_x0 + res.node.rect.w
                      ELSE child_x0,
                      IF orientation = "Vertical" THEN child_y0 + res.node.rect.h
                      ELSE child_y0,
                      orientation, Append(children, res.node), res.next_id)
             ELSE render_children(html_children, k + 1, child_x0, child_y0,
                                  orientation, children, res.next_id)

render_parse_node(node, x0, y0, next_id) ==
    LET none == [some |-> FALSE, node |-> <<>>, next_id |-> next_id]
    IN  CASE node.kind = "Element" /\ node.name = "head" -> none
          [] node.kind = "Element" /\ node.name # "head" ->
                LET orientation == render_orientation(node.name)
                    url == IF node.name = "a" THEN node.href ELSE NoUrl
                    loop == render_children(node.children, 1, x0, y0, orientation,
                                            <<>>, next_id)
                IN  IF Len(loop.children) > 0
                    THEN [some |-> TRUE,
                          node |-> [id |-> loop.next_id,
                                    rect |-> fold_bounding_box(loop.children, 1,
                                                               loop.children[1].rect),
                                    kind |-> "Container", children |-> loop.children,
                                    orientation |-> orientation, url |-> url],
                          next_id |-> loop.next_id + 1]
                    ELSE [none EXCEPT !.next_id = loop.next_id]
          [] node.kind = "Text" /\ check_is_whitespace(node.text) -> none
          [] node.kind = "Text" /\ ~check_is_whitespace(node.text) ->
                [some |-> TRUE,
                 node |-> [id |-> next_id,
                           rect |-> Rect(x0, y0, Len(node.text) * FontCharW, FontCharH),
                           kind |-> "Text", children |-> <<>>,
                           orientation |-> "Horizontal", url |-> NoUrl],
                 next_id |-> next_id + 1]
          [] OTHER -> none

\* Webview::parse_html_to_layout on the children of the document root
parse_html_to_layout(document, next_id) ==
    IF document = <<>> THEN [panic |-> "Empty HTML", node |-> <<>>, next_id |-> next_id]
    ELSE LET res == render_parse_node(Head(document), 0, 0, next_id)
         IN  IF res.some THEN [panic |-> "", node |-> res.node, next_id |-> res.next_id]
             ELSE [panic |-> "Could not parse root HTML node", node |-> <<>>,
                   next_id |-> res.next_id]

\* children.iter().find_map(|c| get_hovered_link(x, y, c))
RECURSIVE get_hovered_link(_, _, _)
RECURSIVE find_hovered_link(_, _, _, _)
find_hovered_link(x, y, children, k) ==
    IF k > Len(children) THEN NoLink
    ELSE LET found == get_hovered_link(x, y, children[k])
         IN  IF found.some THEN found ELSE find_hovered_link(x, y, children, k + 1)

get_hovered_link(x, y, node) ==
    IF node.kind = "Text" THEN NoLink
    ELSE IF ~check_contains_point(node.rect, x, y) THEN NoLink
    ELSE IF node.url.some
         THEN [some |-> TRUE, node_id |-> node.id, rect |-> node.rect,
               url |-> node.url.url, clicked |-> FALSE]
         ELSE find_hovered_link(x, y, node.children, 1)

\* the for loop over input_state.events: Scroll { delta } moves y_offset
RECURSIVE update_scroll(_, _, _)
update_scroll(events, k, y_offset) ==
    IF k > Len(events) THEN y_offset
    ELSE update_scroll(events, k + 1,
                       IF events[k].kind = "Scroll"
                       THEN i64_max(0, y_offset - events[k].delta * SCROLL_SPEED)
                       ELSE y_offset)

has_scroll(events) == \E k \in DOMAIN events : events[k].kind = "Scroll"

\* the state after `if let Some(html) = html_update { .. }`
update_html(wv, html_update) ==
    IF ~html_update.some THEN wv
    ELSE LET parsed == parse_html_to_layout(html_update.document, wv.next_node_id)
         IN  IF parsed.panic # "" THEN [wv EXCEPT !.panic = parsed.panic]
             ELSE [wv EXCEPT !.state = "Active", !.layout = parsed.node,
                             !.link_data = NoLink, !.y_offset = 0,
                             !.next_node_id = parsed.next_id]

Webview_update(input_state, html_update) ==
    /\ webview.panic = ""
    /\ webview.updates < MaxUpdates
    /\ LET wv == update_html(webview, html_update)
           y_offset == update_scroll(input_state.events, 1, wv.y_offset)
           x == input_state.pointer.x - wv.view_rect.x0
           y == (input_state.pointer.y - wv.view_rect.y0) + y_offset
           new_link_data == get_hovered_link(x, y, wv.layout)
           same == \/ new_link_data.some /\ wv.link_data.some
                      /\ new_link_data.node_id = wv.link_data.node_id
                   \/ ~new_link_data.some /\ ~wv.link_data.some
           link_data == IF new_link_data.some
                        THEN [new_link_data EXCEPT !.clicked = input_state.pointer.left_clicked]
                        ELSE new_link_data
       IN  IF wv.panic # "" \/ wv.state = "Blank"
           THEN webview' = [wv EXCEPT
                    !.updates = @ + 1, !.redirect = NoUrl,
                    !.last = [html |-> html_update.some, over_link |-> FALSE,
                              left_clicked |-> input_state.pointer.left_clicked,
                              redraw |-> FALSE]]
           ELSE /\ y_offset <= MaxScroll
                /\ webview' = [wv EXCEPT
                      !.y_offset = y_offset,
                      !.link_data = link_data,
                      !.updates = @ + 1, !.redirect = NoUrl,
                      !.last = [html |-> html_update.some, over_link |-> new_link_data.some,
                                left_clicked |-> input_state.pointer.left_clicked,
                                redraw |-> html_update.some \/ has_scroll(input_state.events)
                                           \/ ~same]]

\* Webview::check_redirect
check_redirect ==
    /\ webview.panic = ""
    /\ webview' = [webview EXCEPT !.redirect =
            IF webview.state = "Active" /\ webview.link_data.some /\ webview.link_data.clicked
            THEN [some |-> TRUE, url |-> webview.link_data.url]
            ELSE NoUrl]

\* documents: a page with a link and a text, a page without a link, the
\* first page behind a doctype, a page whose body is empty
PageLink ==
    << Element("html", NoUrl,
         << Element("head", NoUrl, << TextNode(<<"t">>) >>),
            Element("body", NoUrl,
              << Element("a", [some |-> TRUE, url |-> "/next"], << TextNode(<<"g", "o">>) >>),
                 TextNode(<<" ">>),
                 TextNode(<<"h", "i">>) >>) >>) >>
PageText ==
    << Element("html", NoUrl,
         << Element("body", NoUrl,
              << Element("table", NoUrl, << TextNode(<<"a">>), TextNode(<<"b">>) >>) >>) >>) >>
PageDoctype == <<Doctype>> \o PageLink
PageEmpty == << Element("html", NoUrl, << Element("body", NoUrl, <<>>) >>) >>

HtmlUpdates ==
    {[some |-> FALSE, document |-> <<>>]} \cup
    {[some |-> TRUE, document |-> d] : d \in {PageLink, PageText, PageDoctype, PageEmpty}}

Scroll(delta) == [kind |-> "Scroll", delta |-> delta]

\* InputState of the browser: pointer with left_clicked, the events of the frame
WebInputs ==
    {[pointer |-> [x |-> p[1], y |-> p[2], left_clicked |-> c], events |-> e] :
        p \in {<<0, 0>>, <<FontCharW * 3, 0>>}, c \in BOOLEAN,
        e \in {<<>>, <<Scroll(1)>>, <<Scroll(0 - 1)>>}}

NextWebview ==
    /\ UNCHANGED <<scenario, wasmVars, main_loop, desktop, virtio_net, pointer, page_layout,
                   canvas, pixel_data>>
    /\ \/ \E input_state \in WebInputs, html_update \in HtmlUpdates :
             Webview_update(input_state, html_update)
       \/ check_redirect

InitWebview == scenario = WebviewScenario /\ InitState

SpecWebview == InitWebview /\ [][NextWebview]_vars

\* ------------------------------------------------------------ compute_layout

\* ZERO_M, TR_M, P_M
ZERO_M == [left |-> 0, right |-> 0, top |-> 0, bottom |-> 0]
TR_M == [left |-> 0, right |-> 0, top |-> 5, bottom |-> 5]
P_M == [left |-> 0, right |-> 0, top |-> 20, bottom |-> 20]

\* let (orientation, margin) = match tag.as_str() { .. }
tag_orientation(tag) ==
    IF tag \in {"body", "header", "aside", "td", "tbody", "table", "div", "ul"}
    THEN "Vertical" ELSE "Horizontal"

tag_margin(tag) ==
    CASE tag = "tr" -> TR_M
      [] tag \in {"p", "h1", "h2", "h3"} -> P_M
      [] OTHER -> ZERO_M

check_is_block_element(node_data) == node_data.kind = "Tag" /\ node_data.name = "p"

\* format_rich_lines (applib): the text broken into lines no wider than
\* text_max_w; w and h of the formatted text
format_rich_lines(text, text_max_w) ==
    LET per_line == i64_max(1, text_max_w \div FontCharW)
        lines == (Len(text) + per_line - 1) \div per_line
    IN  [w |-> i64_min(Len(text), per_line) * FontCharW, h |-> lines * FontCharH]

\* parse_node(next_node_id, tree, html_node_id, x0, y0, link, page_max_w):
\* None, or the layout node; and next_node_id afterwards.  layout_children
\* is the for loop over node.children from child k on, x0 the left edge
\* of the container.
RECURSIVE layout_parse_node(_, _, _, _, _)
RECURSIVE layout_children(_, _, _, _, _, _, _, _, _)
layout_children(html_children, k, x0, child_x0, child_y0, orientation, children, next_id, page_max_w) ==
    IF k > Len(html_children) THEN [children |-> children, next_id |-> next_id]
    ELSE LET is_block == check_is_block_element(html_children[k])
                         /\ orientation = "Horizontal"
             moved == is_block /\ Len(children) > 0
             cx == IF moved THEN x0 ELSE child_x0
             cy == IF moved THEN child_y0 + children[Len(children)].rect.h ELSE child_y0
             res == layout_parse_node(html_children[k], cx, cy, next_id, page_max_w)
         IN  IF res.some
             THEN layout_children(html_children, k + 1, x0,
                      IF orientation = "Horizontal" THEN cx + res.node.rect.w ELSE cx,
                      IF orientation = "Vertical" THEN cy + res.node.rect.h ELSE cy,
                      orientation, Append(children, res.node), res.next_id, page_max_w)
             ELSE layout_children(html_children, k + 1, x0, cx, cy, orientation,
                                  children, res.next_id, page_max_w)

layout_parse_node(node, x0, y0, next_id, page_max_w) ==
    LET none == [some |-> FALSE, node |-> <<>>, next_id |-> next_id]
        leaf(rect, kind) ==
            [some |-> TRUE,
             node |-> [id |-> next_id, rect |-> rect, kind |-> kind, children |-> <<>>,
                       orientation |-> "Horizontal", tag |-> ""],
             next_id |-> next_id + 1]
    IN  CASE node.kind = "Tag" /\ node.name = "head" -> none
          [] node.kind = "Tag" /\ node.name = "img" ->
                leaf(Rect(x0, y0, node.width, node.height), "Image")
          [] node.kind = "Tag" /\ node.name = "script" -> none
          [] node.kind = "Tag" /\ node.name \notin {"head", "img", "script"} ->
                LET orientation == tag_orientation(node.name)
                    margin == tag_margin(node.name)
                    mx0 == x0 + margin.left
                    my0 == y0 + margin.top
                    loop == layout_children(node.children, 1, mx0, mx0, my0, orientation,
                                            <<>>, next_id, page_max_w)
                    bbox == fold_bounding_box(loop.children, 1, loop.children[1].rect)
                IN  IF Len(loop.children) > 0
                    THEN [some |-> TRUE,
                          node |-> [id |-> loop.next_id,
                                    rect |-> Rect(bbox.x0, bbox.y0, bbox.w + margin.right,
                                                  bbox.h + margin.bottom),
                                    kind |-> "Container", children |-> loop.children,
                                    orientation |-> orientation, tag |-> node.name],
                          next_id |-> loop.next_id + 1]
                    ELSE [none EXCEPT !.next_id = loop.next_id]
          [] node.kind = "Text" /\ check_is_whitespace(node.text) -> none
          [] node.kind = "Text" /\ ~check_is_whitespace(node.text) ->
                LET text_max_w == i64_max(10, page_max_w - x0)
                    formatted == format_rich_lines(node.text, text_max_w)
                IN  leaf(Rect(x0, y0, formatted.w, formatted.h), "Text")
          [] OTHER -> none

\* compute_layout(html_tree, page_max_w)
compute_layout(html_tree, page_max_w) ==
    LET res == layout_parse_node(html_tree, 0, 0, 0, page_max_w)
    IN  IF res.some THEN [ok |-> TRUE, node |-> res.node] ELSE NoLayout

\* the browser lays the document out
layout_page ==
    /\ ~page_layout.done
    /\ page_layout' = [page_layout EXCEPT
            !.done = TRUE,
            !.result = compute_layout(page_layout.html_tree, page_layout.page_max_w)]

NextLayout ==
    /\ UNCHANGED <<scenario, wasmVars, main_loop, desktop, virtio_net, pointer, webview,
                   canvas, pixel_data>>
    /\ layout_page

InitLayout == scenario = LayoutScenario /\ InitState

SpecLayout == InitLayout /\ [][NextLayout]_vars

\* ------------------------------------------------------------ set_autoscroll

\* a - b on u32: with overflow checks a difference below zero panics,
\* without them it wraps
u32_sub(a, b, overflow_checks) ==
    IF a.panic THEN a
    ELSE IF a.v - b >= 0 THEN [panic |-> FALSE, v |-> a.v - b]
    ELSE IF overflow_checks THEN [panic |-> TRUE, v |-> 0]
    ELSE [panic |-> FALSE, v |-> (a.v - b) % (2 ^ U32Bits)]

\* set_autoscroll(dst_rect, max_h, offsets)
set_autoscroll ==
    /\ ~canvas.called
    /\ LET checks == canvas.overflow_checks
           first == u32_sub([panic |-> FALSE, v |-> canvas.max_h], canvas.dst_rect.h, checks)
           diff == u32_sub(first, 1, checks)
       IN  canvas' = [canvas EXCEPT
               !.called = TRUE,
               !.panic = diff.panic,
               !.offsets = IF diff.panic THEN @ ELSE <<@[1], diff.v>>]

NextAutoscroll ==
    /\ UNCHANGED <<scenario, wasmVars, main_loop, desktop, virtio_net, pointer, webview,
                   page_layout, pixel_data>>
    /\ set_autoscroll

InitAutoscroll == scenario = AutoscrollScenario /\ InitState

SpecAutoscroll == InitAutoscroll /\ [][NextAutoscroll]_vars

\* ------------------------------------------------------------ PixelData

\* the host gives the window another size (between two calls of the guest)
resize_window(w, h) ==
    /\ pixel_data.pc = "idle"
    /\ <<w, h>> # <<pixel_data.win_rect.w, pixel_data.win_rect.h>>
    /\ pixel_data' = [pixel_data EXCEPT !.win_rect = Rect(@.x0, @.y0, w, h),
                                        !.last_ret = ""]

\* PixelData::get_framebuffer up to the call of refresh_framebuffer, or to
\* its return when the sizes agree
PixelData_get_framebuffer ==
    /\ pixel_data.pc = "idle"
    /\ LET w == pixel_data.win_rect.w
           h == pixel_data.win_rect.h
       IN  IF <<pixel_data.fb_handle.w, pixel_data.fb_handle.h>> # <<w, h>>
           THEN pixel_data' = [pixel_data EXCEPT !.pc = "alloc", !.call = "get_framebuffer",
                                                 !.new_w = w, !.new_h = h]
           ELSE pixel_data' = [pixel_data EXCEPT !.last_ret = "get_framebuffer"]

\* PixelData::force_refresh up to the call of refresh_framebuffer
PixelData_force_refresh ==
    /\ pixel_data.pc = "idle"
    /\ pixel_data' = [pixel_data EXCEPT !.pc = "alloc", !.call = "force_refresh",
                                        !.new_w = pixel_data.fb_handle.w,
                                        !.new_h = pixel_data.fb_handle.h]

\* the order of the statements of refresh_framebuffer: allocate, register,
\* replace and destroy
refresh_next_FreeFirst(at) ==
    CASE at = "alloc" -> "destroy"
      [] at = "destroy" -> "register"
      [] at = "register" -> "idle"
refresh_next(at) ==
    CASE at = "alloc" -> "register"
      [] at = "register" -> "destroy"
      [] at = "destroy" -> "idle"

\* the state after one statement of refresh_framebuffer; on the last one
\* the calling method returns
refresh_goto(pd, at) ==
    [pd EXCEPT !.pc = at, !.last_ret = IF at = "idle" THEN pd.call ELSE @]

\* let new_fb_handle = FramebufferHandle::new(new_w, new_h): the allocator
\* returns an address that is not in use
refresh_new ==
    /\ pixel_data.pc = "alloc"
    /\ \E ptr \in (1..NumAddrs) \ {a.ptr : a \in pixel_data.heap} :
          LET handle == FramebufferHandle(ptr, pixel_data.new_w, pixel_data.new_h)
          IN  pixel_data' = refresh_goto(
                  [pixel_data EXCEPT !.new_fb_handle = handle,
                                     !.heap = @ \cup {Allocation(handle)}],
                  refresh_next("alloc"))

\* new_fb_handle.register()
refresh_register ==
    /\ pixel_data.pc = "register"
    /\ pixel_data' = refresh_goto(
            [pixel_data EXCEPT !.registered = Registered(pixel_data.new_fb_handle)],
            refresh_next("register"))

\* core::mem::replace(&mut self.fb_handle, new_fb_handle) and
\* old_fb_handle.destroy()
refresh_destroy ==
    /\ pixel_data.pc = "destroy"
    /\ pixel_data' = refresh_goto(
            [pixel_data EXCEPT !.fb_handle = pixel_data.new_fb_handle,
                               !.heap = @ \ {Allocation(pixel_data.fb_handle)}],
            refresh_next("destroy"))

NextPixelData ==
    /\ UNCHANGED <<scenario, wasmVars, main_loop, desktop, virtio_net, pointer, webview,
                   page_layout, canvas>>
    /\ \/ \E w \in 1..MaxWinDim, h \in 1..MaxWinDim : resize_window(w, h)
       \/ PixelData_get_framebuffer
       \/ PixelData_force_refresh
       \/ refresh_new
       \/ refresh_register
       \/ refresh_destroy

InitPixelData == scenario = PixelDataScenario /\ InitState

SpecPixelData == InitPixelData /\ [][NextPixelData]_vars

\* ------------------------------------------------------------ properties

InsideWithContext(g) == pc[g] \in {"init", "step", "paused"}

CtxFirstStubs ==
    {"clock_time_get", "host_get_input_state", "host_get_win_rect",
     "host_get_stylesheet", "host_get_time"}

CtxLaterStubs ==
    {"random_get", "host_log", "host_save_timing", "host_tcp_connect",
     "host_tcp_may_send", "host_tcp_may_recv", "host_tcp_write",
     "host_tcp_read", "host_tcp_close"}

NoCtxStubs ==
    {"environ_sizes_get", "environ_get", "args_sizes_get", "fd_write",
     "host_set_framebuffer", "host_get_consumed_fuel", "host_qemu_dump"}
    \cup ValueStubs \cup UnimplementedStubs

Registry(g) == sockets_store[g].sockets

\* C1 (as stated): the Step Context slot of a guest is non-empty exactly when
\* guest code of that guest is executing on the host call stack, the module
\* start function and paused ticks included.
C1_SlotIffGuestOnStack ==
    \A g \in Guests : step_context[g].set <=> GuestOnStack(g)

\* C1 (amended): the slot is non-empty exactly while a with_context call of
\* the guest is in progress (the init call and every step call, also a
\* paused one in which no guest code runs); the start function runs with the
\* slot empty, the init and step exports run with the slot non-empty.
C1_SlotIffInsideWithContext ==
    \A g \in Guests :
        /\ step_context[g].set <=> InsideWithContext(g)
        /\ pc[g] = "start" => ~step_context[g].set
        /\ pc[g] \in {"init", "step"} => step_context[g].set

\* a paused tick is in progress: the slot is set and no guest code runs
C1_Witness ==
    \E g \in Guests : pc[g] = "paused" /\ step_context[g].set /\ ~GuestOnStack(g)

\* C2 (as stated): every stub invoked while no Step Context is installed
\* panics with "No StepContext set" and has no other effect.
C2_EveryStubPanicsWithoutContext ==
    (last_call.stub # "none" /\ ~last_call.ctx) =>
        /\ kernel = "panicked"
        /\ panic_msg = "No StepContext set"
        /\ framebuffer[last_call.guest] = NoFramebuffer

\* C2 (amended): without a Step Context, a stub panics with "No StepContext
\* set" exactly when it reaches with_step_context: always for the stubs that
\* call it first, after their argument checks for the others that call it
\* (which panic in every case); the stubs that never call it do not panic
\* with that message; and no panicking call changes the store or the stack.
C2_PanicWhereContextIsRead ==
    /\ [](LET c == last_call IN
            /\ (c.stub \in CtxFirstStubs /\ ~c.ctx) =>
                  (kernel = "panicked" /\ panic_msg = "No StepContext set")
            /\ (c.stub \in CtxLaterStubs /\ ~c.ctx) => kernel = "panicked"
            /\ c.stub \in NoCtxStubs => panic_msg # "No StepContext set"
            /\ panic_msg = "No StepContext set" =>
                  (~c.ctx /\ c.stub \in CtxFirstStubs \cup CtxLaterStubs))
    /\ [][kernel' = "panicked" => (storeVars' = storeVars /\ tcpVars' = tcpVars)]_vars

\* the start function called a stub that reads the context
C2_Witness ==
    /\ kernel = "panicked"
    /\ panic_msg = "No StepContext set"
    /\ last_call.stub # "none"
    /\ pc[last_call.guest] = "start"

\* C3: a trap in step makes step return an error and leaves the guest and
\* the kernel alive; the next step call is possible, runs the step export
\* again and starts it with exactly STEP_FUEL.
C3_TrapRecovery ==
    /\ [](\A g \in Apps :
            (step_ret[g] = "Err" /\ pc[g] = "idle" /\ KernelFree
                /\ Ticks(NGuests) < MaxTicks) => ENABLED step(g, FALSE, NoInput, NoRect, TRUE))
    /\ [][\A g \in Guests :
            /\ (pc[g] = "step" /\ pc'[g] = "idle" /\ step_ret'[g] = "Err") =>
                  (kernel' = "running" /\ sockets_store'[g] = sockets_store[g]
                     /\ framebuffer'[g] = framebuffer[g])
            /\ (pc[g] = "idle" /\ pc'[g] = "step") =>
                  (fuel'[g] = STEP_FUEL /\ step_context'[g].set)]_vars

\* the tick after a trapped tick is running, on a full budget
C3_Witness ==
    \E g \in Guests :
        /\ step_ret[g] = "Err"
        /\ pc[g] = "step"
        /\ tick[g] >= 2
        /\ fuel[g] = STEP_FUEL

\* C4 (as stated): a call whose (offset, len) does not fit the linear memory
\* is a guest trap; the kernel keeps running.
C4_OutOfBoundsIsGuestTrap ==
    last_call.oob => kernel = "running"

\* C5 (as stated): a TCP stub called with an id the registry does not hold
\* reports a socket error (-1 where it returns a value) and aborts nothing.
C5_UnknownIdIsSocketError ==
    (last_call.has_id /\ ~last_call.known /\ last_call.ctx /\ ~last_call.oob) =>
        /\ kernel = "running"
        /\ last_call.stub # "host_tcp_close" =>
              (last_call.has_ret /\ last_call.ret = 0 - 1)

\* C6 (as stated): after host_tcp_close(id) the registry of the guest no
\* longer holds id.
C6_CloseDropsRegistryEntry ==
    (last_call.stub = "host_tcp_close" /\ last_call.handle # None) =>
        last_call.id \notin DOMAIN Registry(last_call.guest)

\* C7: the ids returned by the successful connects of a guest are 0, 1, 2, ..
\* in this order, the counter equals their number and never decreases, and
\* the registry holds exactly these ids, closed or not.
C7_IdsFromMonotoneCounter ==
    /\ [](\A g \in Guests :
            /\ issued[g] = [i \in 1..Len(issued[g]) |-> i - 1]
            /\ sockets_store[g].next_id = Len(issued[g])
            /\ DOMAIN Registry(g) = 0..(sockets_store[g].next_id - 1))
    /\ [][\A g \in Guests :
            pc[g] # "none" => sockets_store'[g].next_id >= sockets_store[g].next_id]_vars

\* a second connect after the close of the first socket: the stack handed
\* out the same identity again, under a new id
C7_Witness ==
    \E g \in Guests :
        /\ Len(issued[g]) >= 2
        /\ Registry(g)[0] = Registry(g)[1]

\* C8 (as stated): an id valid in the registry of one guest is not found in
\* the registry of any other guest.
C8_IdsDisjointAcrossGuests ==
    \A g1, g2 \in Guests :
        g1 # g2 => \A i \in DOMAIN Registry(g1) :
                      get_handle(sockets_store[g2], i) = None

\* C8 (amended): registries are per guest and their ids overlap; a lookup of
\* id i in the registry of g2 is decided by g2 alone: it finds a socket
\* exactly when 0 <= i < the number of successful connects of g2, and a
\* registry is changed only by a successful host_tcp_connect of its guest.
C8_LookupDecidedByOwnGuest ==
    /\ [](\A g \in Guests : \A i \in IdArgs \cup {MaxConnects} :
            (get_handle(sockets_store[g], i) # None)
                <=> (0 <= i /\ i < Len(issued[g])))
    /\ [][\A g \in Guests :
            sockets_store'[g] # sockets_store[g] =>
                (last_call'.guest = g /\ last_call'.stub = "host_tcp_connect"
                    /\ last_call'.ret >= 0)]_vars

\* two guests hold id 0 at once, for two different open sockets, and a
\* lookup of id 0 by one of them returned
C8_Witness ==
    \E g1, g2 \in Guests :
        /\ g1 # g2
        /\ 0 \in DOMAIN Registry(g1) /\ 0 \in DOMAIN Registry(g2)
        /\ Registry(g1)[0] # Registry(g2)[0]
        /\ {Registry(g1)[0], Registry(g2)[0]} \subseteq tcp_sockets
        /\ last_call.guest = g2 /\ last_call.has_id /\ last_call.id = 0
        /\ last_call.handle = Registry(g2)[0]

\* C9 (as stated): every socket identity a TCP stub hands to the stack was
\* returned by a connect of the calling guest and not closed since.
C9_OnlyOwnOpenSockets ==
    last_call.handle # None => last_call.owner = last_call.guest

\* C10 (as stated): after a successful tick the stats point of the guest
\* holds a fuel value equal to STEP_FUEL minus the remaining fuel.
C10_StatsRecordFuel ==
    \A g \in Guests :
        (step_ret[g] = "Ok" /\ pc[g] = "idle") =>
            /\ "fuel" \in DOMAIN stats[g]
            /\ stats[g].fuel = STEP_FUEL - fuel[g]

\* the offset of the registered region as the guest passed it (a u32)
GuestOffset(g) == framebuffer[g].addr % U32_MOD

\* 4 * w * h of the registered region, not wrapped
RegionBytes(g) == 4 * framebuffer[g].w * framebuffer[g].h

\* C11 (as stated): when the registered region does not fit the linear
\* memory at the moment get_framebuffer reads it, no framebuffer is returned
\* and the kernel keeps running.
C11_OutOfBoundsSkipsBlit ==
    \A g \in Guests :
        (fb_view.guest = g /\ framebuffer[g].set
            /\ GuestOffset(g) + RegionBytes(g) > Len(fb_view.mem)) =>
                (kernel = "running" /\ ~fb_view.some)

\* C12 (as stated): get_framebuffer returns nothing before a registration;
\* for a registered region that lies inside the memory it returns the bytes
\* the memory holds at [offset, offset + 4*w*h) at the moment of the call,
\* for the most recent registration.
C12_ViewEqualsMemory ==
    \A g \in Guests :
        fb_view.guest = g =>
            /\ ~framebuffer[g].set => ~fb_view.some
            /\ (framebuffer[g].set
                  /\ GuestOffset(g) + RegionBytes(g) <= Len(fb_view.mem)) =>
                    /\ fb_view.some
                    /\ fb_view.bytes =
                          [i \in 1..RegionBytes(g) |-> fb_view.mem[GuestOffset(g) + i]]

\* C13 (as stated): a returned pixel slice has exactly 4*w*h bytes for the
\* dimensions it is returned with, and a registered dimension is never a
\* negative argument read as a large unsigned value.
C13_SliceLengthExact ==
    /\ fb_view.some => fb_view.len = 4 * fb_view.w * fb_view.h
    /\ \A g \in Guests :
          framebuffer[g].set =>
              (framebuffer[g].w < U32_MOD \div 2 /\ framebuffer[g].h < U32_MOD \div 2)

\* C14 (as stated): a guest address is zero-extended: the offset the host
\* keeps for it is below 2^32 (here 2^GuestBits).
C14_AddressZeroExtended ==
    \A g \in Guests : framebuffer[g].set => framebuffer[g].addr < U32_MOD

\* the step call whose context guest g is running under
InStepOf(g) ==
    /\ step_context[g].set
    /\ call_args.guest = g
    /\ call_args.kind = "step"

\* the pointer of the global input, relative to the window's origin
LocalPointer(input_state, win_rect) ==
    [x |-> input_state.pointer.x - win_rect.x0,
     y |-> input_state.pointer.y - win_rect.y0]

\* C15: the input snapshot that step installs has the pointer translated by
\* the window origin; it has no events for a guest that is not in the
\* foreground, and all events of the global input for a foreground guest.
C15_InputLocality ==
    \A g \in Guests :
        InStepOf(g) =>
            LET snapshot == step_context[g].input_state
            IN  /\ snapshot.pointer =
                      LocalPointer(call_args.input_state, call_args.win_rect)
                /\ ~call_args.is_foreground => snapshot.events = <<>>
                /\ call_args.is_foreground =>
                      snapshot.events = call_args.input_state.events

\* a background guest reads its snapshot while the global input holds a
\* click and the window is not at the screen's origin
C15_Witness ==
    \E g \in Guests :
        /\ InStepOf(g)
        /\ ~call_args.is_foreground
        /\ call_args.input_state.events # <<>>
        /\ call_args.win_rect.x0 # 0
        /\ step_context[g].input_state.events = <<>>
        /\ step_context[g].input_state.pointer # call_args.input_state.pointer
        /\ last_call.guest = g
        /\ last_call.stub = "host_get_input_state"
        /\ last_call.ctx
        /\ kernel = "running"

\* a call of stub name by guest g returns to the guest in this step
ReturnsNow(g, name) ==
    /\ last_call' # last_call
    /\ last_call'.guest = g
    /\ last_call'.stub = name
    /\ kernel' = "running"

\* the last n elements of a sequence
Tail_n(seq, n) == SubSeq(seq, Len(seq) - n + 1, Len(seq))

\* C16 (as stated): the console's version token never decreases and strictly
\* increases on every guest write to stdout (fd_write).
C16_VersionIncreasesOnWrite ==
    [][\A g \in Guests :
          /\ console_output'[g].version >= console_output[g].version
          /\ ReturnsNow(g, "fd_write") =>
                console_output'[g].version > console_output[g].version]_vars

\* C17 (as stated): once fd_write has returned for a text written to stdout,
\* the guest's console stream ends with that text (and has a version token
\* that was incremented for it).
C17_WriteAppendsToConsole ==
    \A g \in Guests :
        (last_call.guest = g /\ last_call.stub = "fd_write" /\ last_call.has_ret) =>
            LET content == console_output[g].content
                n == Len(last_call.data)
            IN  /\ Len(content) >= n
                /\ Tail_n(content, n) = last_call.data
                /\ n > 0 => console_output[g].version > 0

IsPrefix(p, q) == Len(p) <= Len(q) /\ SubSeq(q, 1, Len(p)) = p

\* a host_log call of guest g comes back to the guest in this step
LogsNow(g) ==
    /\ last_call'.guest = g
    /\ last_call'.stub = "host_log"
    /\ kernel' = "running"
    /\ <<last_call, console_output[g]>>' # <<last_call, console_output[g]>>

C19_ContextClearedOnReturn ==
    /\ [](\A g \in Guests : ~Busy(g) => step_context[g] = NoContext)
    /\ [][\A g \in Guests :
            /\ (InsideWithContext(g) /\ pc'[g] = "idle") =>
                  (step_context'[g] = NoContext /\ kernel' = "running")
            /\ (pc[g] = "idle" /\ pc'[g] \in {"step", "paused"}) =>
                  step_context'[g] =
                      StepContext(relative_input_state(call_args'.input_state,
                                                       call_args'.win_rect,
                                                       call_args'.is_foreground),
                                  call_args'.win_rect)]_vars

\* the step export trapped, step has returned the error, the slot is empty
C19_Witness ==
    \E g \in Guests :
        /\ pc[g] = "idle"
        /\ step_ret[g] = "Err"
        /\ tick[g] > 0
        /\ kernel = "running"
        /\ ~step_context[g].set

\* C20 (as stated): a call of an unimplemented WASI stub is a guest trap and
\* leaves the kernel running; an errno stub returns its fixed value.
C20_UnimplementedStubIsGuestTrap ==
    /\ last_call.stub \in UnimplementedStubs => kernel = "running"
    /\ last_call.stub \in ValueStubs \ {"proc_exit"} =>
          (last_call.has_ret /\ last_call.ret = StubValue(last_call.stub))

\* C21 (as stated): host_tcp_connect, called in a step with any ip and any
\* port (ports outside 0..65535 included), returns a non-negative id or -1.
C21_ConnectReturnsIdOrMinusOne ==
    (last_call.stub = "host_tcp_connect" /\ last_call.ctx) =>
        /\ last_call.has_ret
        /\ last_call.ret >= 0 - 1

\* a call of host_tcp_write or host_tcp_read (name) by guest g returns a
\* value to the guest in this step
TransferNow(g, name) ==
    /\ last_call'.guest = g
    /\ last_call'.stub = name
    /\ last_call'.has_ret
    /\ pc'[g] = pc[g]
    /\ tick' = tick
    /\ <<last_call, net_sent[g], net_recv[g]>>' # <<last_call, net_sent[g], net_recv[g]>>

\* C22: a host_tcp_write or host_tcp_read that returns gives -1 with the
\* store unchanged, or the number n of bytes transferred, 0 <= n <= len, and
\* adds exactly n to the guest's sent (write) or received (read) counter and
\* nothing to the other; a transfer of no bytes returns 0.
C22_TransferCounted ==
    [][\A g \in Guests :
          LET n == last_call'.ret
          IN  /\ TransferNow(g, "host_tcp_write") =>
                    /\ n >= 0 - 1 /\ n <= last_call'.len
                    /\ net_recv'[g] = net_recv[g]
                    /\ net_sent'[g] = net_sent[g] + (IF n < 0 THEN 0 ELSE n)
                    /\ n = 0 - 1 => storeVars' = storeVars
              /\ TransferNow(g, "host_tcp_read") =>
                    /\ n >= 0 - 1 /\ n <= last_call'.len
                    /\ net_sent'[g] = net_sent[g]
                    /\ net_recv'[g] = net_recv[g] + (IF n < 0 THEN 0 ELSE n)
                    /\ n = 0 - 1 => storeVars' = storeVars]_vars

\* a read of up to 2 bytes transferred 1 byte, and the counter holds it
C22_Witness ==
    \E g \in Guests :
        /\ last_call.guest = g
        /\ last_call.stub = "host_tcp_read"
        /\ last_call.has_ret
        /\ last_call.len = 2
        /\ last_call.ret = 1
        /\ net_recv[g] = 1
        /\ net_sent[g] = 0
        /\ GuestOnStack(g)

\* the bytes a host_tcp_write / host_tcp_read (name) of g transfers in this step
TransferredNow(g, name) ==
    IF TransferNow(g, name) /\ last_call'.ret > 0 THEN last_call'.ret ELSE 0

\* C23: every call of step, also a trapped or a paused one, starts with both
\* net counters at zero and ends by overwriting the guest's stats point with
\* the bytes that were transferred during that call and with the memory
\* size, pages times 65536; nothing of an earlier tick is carried over.
C23_StatsOfThisStepOnly ==
    [][\A g \in Guests :
          /\ (pc[g] = "idle" /\ pc'[g] \in {"step", "paused"}) =>
                (net_sent'[g] = 0 /\ net_recv'[g] = 0)
          /\ (pc[g] = "step" /\ pc'[g] = "step") =>
                /\ net_sent'[g] = net_sent[g] + TransferredNow(g, "host_tcp_write")
                /\ net_recv'[g] = net_recv[g] + TransferredNow(g, "host_tcp_read")
          /\ (pc[g] = "paused" /\ pc'[g] = "paused") =>
                (net_sent'[g] = 0 /\ net_recv'[g] = 0)
          /\ (pc[g] \in {"step", "paused"} /\ pc'[g] = "idle") =>
                /\ stats'[g].net_sent = net_sent[g]
                /\ stats'[g].net_recv = net_recv[g]
                /\ stats'[g].mem_used = mem_pages[g] * 65536
                /\ step_ret'[g] \in {"Ok", "Err"}]_vars

\* the second tick of a guest trapped after it had sent one byte, and the
\* stats point holds that byte
C23_Witness ==
    \E g \in Guests :
        /\ pc[g] = "idle"
        /\ tick[g] = 2
        /\ step_ret[g] = "Err"
        /\ stats[g].net_sent = 1
        /\ stats[g].net_recv = 0
        /\ stats[g].mem_used = mem_pages[g] * 65536

\* a step call of guest g with is_paused = true is in progress
PausedTick(g) ==
    /\ Busy(g)
    /\ call_args.guest = g
    /\ call_args.kind = "step"
    /\ call_args.is_paused

\* C24: in a step call with is_paused = true no guest code runs, the call
\* returns Ok, and the size of the linear memory, the framebuffer region,
\* the socket registry and the console stream are what they were before it.
C24_PausedTickChangesNothing ==
    /\ [](\A g \in Guests : PausedTick(g) => ~GuestOnStack(g))
    /\ [][\A g \in Guests :
            /\ (PausedTick(g) \/ PausedTick(g)') =>
                  /\ mem_pages'[g] = mem_pages[g]
                  /\ framebuffer'[g] = framebuffer[g]
                  /\ sockets_store'[g] = sockets_store[g]
                  /\ console_output'[g] = console_output[g]
                  /\ last_call'.stub = "none"
            /\ (PausedTick(g) /\ ~PausedTick(g)') =>
                  (pc'[g] = "idle" /\ step_ret'[g] = "Ok" /\ kernel' = "running")]_vars

\* a paused tick of a guest with a grown memory has returned
C24_Witness ==
    \E g \in Guests :
        /\ pc[g] = "idle"
        /\ call_args.guest = g
        /\ call_args.kind = "step"
        /\ call_args.is_paused
        /\ step_ret[g] = "Ok"
        /\ mem_pages[g] = 2
        /\ kernel = "running"

\* C25: host_get_consumed_fuel writes STEP_FUEL minus the remaining fuel;
\* the subtraction never underflows, the value lies in 0..STEP_FUEL, it does
\* not decrease from one call to a later one of the same step (it is never
\* above the fuel consumed so far, and fuel is only consumed within a step),
\* and a new step starts on a full budget, that is at 0 consumed.
C25_ConsumedFuel ==
    /\ [](\A g \in Guests : fuel[g] >= 0 /\ fuel[g] <= STEP_FUEL)
    /\ [](last_call.stub = "host_get_consumed_fuel" => last_call.value \in 0..STEP_FUEL)
    /\ []((last_call.stub = "host_get_consumed_fuel" /\ pc[last_call.guest] = "step") =>
            /\ last_call.value <= STEP_FUEL - fuel[last_call.guest])
    /\ [][\A g \in Guests :
            /\ ReturnsNow(g, "host_get_consumed_fuel") =>
                  (last_call'.value = STEP_FUEL - fuel[g] /\ fuel'[g] = fuel[g])
            /\ (GuestOnStack(g) /\ pc'[g] = pc[g] /\ tick'[g] = tick[g]) =>
                  fuel'[g] <= fuel[g]
            /\ (pc[g] = "idle" /\ pc'[g] = "step") => fuel'[g] = STEP_FUEL]_vars

\* in its second tick a guest has consumed one unit of fuel and reads that
C25_Witness ==
    \E g \in Guests :
        /\ pc[g] = "step"
        /\ tick[g] = 2
        /\ last_call.guest = g
        /\ last_call.stub = "host_get_consumed_fuel"
        /\ ~last_call.oob
        /\ last_call.value = 1
        /\ fuel[g] = STEP_FUEL - 1
        /\ kernel = "running"

\* the sequence of application indices is strictly increasing
Increasing(seq) == \A j, k \in DOMAIN seq : j < k => seq[j] < seq[k]

\* C26: within one pass of the main loop the open applications are called
\* one after another in the order of the application list, each at most
\* once, and an application that is not open is not called.
C26_OpenAppsInListOrder ==
    /\ [](Increasing(main_loop.called))
    /\ [](\A j \in DOMAIN main_loop.called :
             main_loop.applications[main_loop.called[j]].is_open)
    /\ [](main_loop.pc = "call_app" =>
             main_loop.called[Len(main_loop.called)] = main_loop.i)
    /\ [][(main_loop.pc # "loop" /\ main_loop'.i = main_loop.i + 1) =>
             LET i == main_loop.i
                 is_called == \E j \in DOMAIN main_loop'.called : main_loop'.called[j] = i
             IN  main_loop'.applications[i].is_open <=> is_called]_vars

\* a pass in which both applications were open and were called, first to last
C26_Witness ==
    /\ main_loop.pc = "loop"
    /\ main_loop.called = <<1, 2>>
    /\ \A a \in 1..NApplications : main_loop.applications[a].is_open

\* the byte guest memory holds at address a after the stores of a call, for
\* an address one of them covers: the later store wins
RECURSIVE Stored(_, _, _)
Stored(writes, n, a) ==
    LET w == writes[n]
    IN  IF a >= w.addr /\ a < w.addr + Len(w.bytes) THEN w.bytes[a - w.addr + 1]
        ELSE Stored(writes, n - 1, a)

\* the addresses the stores of a call cover
Covered(writes) ==
    UNION {{w.addr + k - 1 : k \in 1..Len(w.bytes)} : w \in {writes[n] : n \in DOMAIN writes}}

\* the number of bytes of all stores of a call
RECURSIVE StoredBytes(_, _)
StoredBytes(writes, n) ==
    IF n = 0 THEN 0 ELSE Len(writes[n].bytes) + StoredBytes(writes, n - 1)

RustBacktraceFull ==
    <<82, 85, 83, 84, 95, 66, 65, 67, 75, 84, 82, 65, 67, 69, 61, 102, 117, 108, 108, 0>>

\* C27: environ_sizes_get stores count 1 and buffer size 20; environ_get
\* stores one 4-byte little-endian pointer equal to environ_buf and the 20
\* bytes of "RUST_BACKTRACE=full" and its NUL from environ_buf on, and
\* nothing else; args_sizes_get stores 0 for the count and for the size.
C27_WasiEnvironment ==
    LET w == last_call.writes
    IN  /\ (last_call.stub = "environ_sizes_get" /\ last_call.has_ret) =>
              /\ Len(w) = 2
              /\ w[1].bytes = <<1, 0, 0, 0>>
              /\ w[2].bytes = <<20, 0, 0, 0>>
              /\ last_call.ret = 0
        /\ (last_call.stub = "environ_get" /\ last_call.has_ret) =>
              /\ StoredBytes(w, Len(w)) = 4 + 20
              /\ Len(w[1].bytes) = 4
              /\ w[1].bytes[1] = w[2].addr % 256 /\ w[1].bytes[2] = 0
              /\ w[1].bytes[3] = 0 /\ w[1].bytes[4] = 0
              /\ Covered(w) = {w[1].addr + k : k \in 0..3} \cup {w[2].addr + k : k \in 0..19}
              /\ \A k \in 0..19 : Stored(w, Len(w), w[2].addr + k) = RustBacktraceFull[k + 1]
              /\ last_call.ret = 0
        /\ (last_call.stub = "args_sizes_get" /\ last_call.has_ret) =>
              /\ Len(w) = 2
              /\ w[1].bytes = <<0, 0, 0, 0>>
              /\ w[2].bytes = <<0, 0, 0, 0>>
              /\ last_call.ret = 0

\* environ_get returned for a pointer table at 0 and a string buffer at 28
C27_Witness ==
    /\ last_call.stub = "environ_get"
    /\ last_call.has_ret
    /\ last_call.writes[1].addr = 0
    /\ last_call.writes[2].addr = 28
    /\ last_call.writes[1].bytes = <<28, 0, 0, 0>>
    /\ kernel = "running"

\* C28: a call of host_log, host_save_timing or fd_write whose bytes are not
\* valid UTF-8 does not return to the guest, neither with a value nor as a
\* trap: the kernel panics in the stub, with "Not UTF-8", "Invalid key" or
\* the message of Result::unwrap, and the call changes nothing else.
Utf8Stubs == {"host_log", "host_save_timing", "fd_write"}

Utf8PanicMsg(stub) ==
    CASE stub = "host_log" -> "Not UTF-8"
      [] stub = "host_save_timing" -> "Invalid key"
      [] stub = "fd_write" -> "called Result::unwrap() on an Err value"

C28_NotUtf8PanicsKernel ==
    /\ [](last_call.not_utf8 =>
            /\ last_call.stub \in Utf8Stubs
            /\ kernel = "panicked"
            /\ panic_msg = Utf8PanicMsg(last_call.stub)
            /\ ~last_call.has_ret
            /\ ~last_call.oob
            /\ GuestOnStack(last_call.guest))
    /\ [][(last_call'.not_utf8 /\ last_call' # last_call) =>
            /\ kernel = "running"
            /\ UNCHANGED <<storeVars, tcpVars, schedVars>>]_vars

C28_Witness ==
    /\ last_call.stub = "host_save_timing"
    /\ last_call.not_utf8
    /\ last_call.ctx
    /\ pc[last_call.guest] = "step"
    /\ kernel = "panicked"
    /\ panic_msg = "Invalid key"

\* C29: instantiate_app calls the init export once, inside with_context
\* (context installed, fuel set to STEP_FUEL) and before the first step of
\* the guest; once instantiate_app has returned the WasmApp, the guest is
\* only ever stepped, never initialised again; and when the init call fails
\* the kernel panics with "Failed to initialize WASM app", so no WasmApp is
\* returned and the guest is never stepped.
Instantiated(g) == pc[g] \in {"idle", "step", "paused"}

InitFailed == panic_msg = "Failed to initialize WASM app"

C29_InitOnceBeforeStep ==
    /\ [](\A g \in Guests :
            pc[g] \in {"start", "init"} =>
                /\ tick[g] = 0
                /\ call_args.kind = "instantiate_app"
                /\ call_args.guest = g
                /\ pc[g] = "init" => step_context[g].set)
    /\ [](InitFailed =>
            /\ kernel = "panicked"
            /\ \E g \in Guests : pc[g] = "init" /\ tick[g] = 0
            /\ \A g \in Guests : pc[g] \notin {"step", "paused"})
    /\ [][\A g \in Guests :
            /\ (pc'[g] = "init" /\ pc[g] # "init") =>
                  /\ pc[g] \in {"none", "start"}
                  /\ fuel'[g] = STEP_FUEL
                  /\ step_context'[g].set
            /\ pc[g] = "start" => pc'[g] \in {"start", "init"}
            /\ pc[g] = "init" => pc'[g] \in {"init", "idle"}
            /\ (pc[g] = "init" /\ pc'[g] = "idle") =>
                  (kernel' = "running" /\ ~step_context'[g].set)
            /\ Instantiated(g) => Instantiated(g)'
            /\ (pc'[g] \in {"step", "paused"} /\ pc[g] # pc'[g]) => pc[g] = "idle"
            /\ InitFailed => UNCHANGED vars]_vars

C29_Witness ==
    \E g \in Guests :
        /\ pc[g] = "init"
        /\ kernel = "running"
        /\ step_context[g].set
        /\ fuel[g] = STEP_FUEL
        /\ tick[g] = 0
        /\ call_args.kind = "instantiate_app"

\* C30: every with_context call starts with an empty timings map; a
\* host_save_timing call that returns leaves the map as it was except that
\* the key now maps to the u64 whose little-endian bytes the guest stored
\* (a sample already under that key is replaced); the map changes in no
\* other way while the context stays installed, and it is gone with the
\* context, so no step sees a sample of another.
EntersContext(g) ==
    /\ step_context'[g].set
    /\ ~step_context[g].set \/ pc'[g] # pc[g] \/ tick'[g] # tick[g]

C30_TimingsPerStep ==
    /\ [](\A g \in Guests :
            ~step_context[g].set => step_context[g].timings = EmptyMap)
    /\ [][\A g \in Guests :
            LET old == step_context[g].timings
                new == step_context'[g].timings
                key == last_call'.data
                buf == last_call'.sample
            IN  /\ EntersContext(g) => new = EmptyMap
                /\ ReturnsNow(g, "host_save_timing") =>
                      /\ step_context[g].set /\ step_context'[g].set
                      /\ DOMAIN new = (DOMAIN old) \cup {key}
                      /\ \A k \in (DOMAIN old) \ {key} : new[k] = old[k]
                      /\ buf = <<1, 0, 0, 0, 0, 0, 0, 0>> => new[key] = 1
                      /\ buf = <<0, 1, 0, 0, 0, 0, 0, 0>> => new[key] = 256
                      /\ buf \in TimingVals
                /\ new # old =>
                      \/ EntersContext(g)
                      \/ ~step_context'[g].set
                      \/ /\ last_call'.guest = g
                         /\ last_call'.stub = "host_save_timing"
                         /\ kernel' = "running"]_vars

C30_Witness ==
    \E g \in Guests :
        /\ pc[g] = "step"
        /\ tick[g] = 2
        /\ last_call.guest = g
        /\ last_call.stub = "host_save_timing"
        /\ last_call.data = <<"u", "i">>
        /\ last_call.sample = <<0, 1, 0, 0, 0, 0, 0, 0>>
        /\ DOMAIN step_context[g].timings = {<<>>, <<"u", "i">>}
        /\ step_context[g].timings[<<"u", "i">>] = 256
        /\ step_context[g].timings[<<>>] = 1

\* C31: a step call changes neither the caller's input state nor the
\* caller's window rectangle, so every guest stepped in a tick gets the
\* snapshot derived from the input state the tick began with: the pointer
\* translated by its own window origin, the events kept for a foreground
\* guest and dropped for a background one, whichever guests were stepped
\* before it.
C31_CallerInputUnchanged ==
    /\ [](desktop.input_state = desktop.tick_input)
    /\ [](\A g \in Guests : desktop.win_rects[g] = WinRect(g))
    /\ [](\A g \in Guests :
            InStepOf(g) =>
                LET snapshot == step_context[g].input_state
                IN  /\ snapshot.pointer = LocalPointer(desktop.tick_input, WinRect(g))
                    /\ snapshot.events =
                          IF call_args.is_foreground THEN desktop.tick_input.events
                          ELSE <<>>)
    /\ [][(\E g \in Guests : pc'[g] # pc[g]) =>
            /\ desktop'.input_state = desktop.input_state
            /\ desktop'.win_rects = desktop.win_rects]_vars

\* the second guest of a tick is stepped in the foreground and reads its
\* snapshot: it still has the events of the tick
C31_Witness ==
    \E g \in Guests :
        /\ InStepOf(g)
        /\ Cardinality(desktop.stepped) = 2
        /\ call_args.is_foreground
        /\ desktop.tick_input.events # <<>>
        /\ step_context[g].input_state.events = desktop.tick_input.events
        /\ last_call.guest = g
        /\ last_call.stub = "host_get_input_state"
        /\ kernel = "running"

\* C32: the loop of new ends, and it ends with Q_SIZE buffers in the receive
\* queue; from then on the receive queue owns Q_SIZE buffers in every
\* state.  A used buffer leaves the queue only in a try_recv that returns
\* Some(data of that buffer) and offers one fresh buffer to the device; the
\* push of try_recv never fails; a try_recv that returns None found no used
\* buffer and changed neither queue.
RecvNone == [fn |-> "try_recv", some |-> FALSE, value |-> <<>>]

C32_ReceiveQueueStocked ==
    /\ <>(virtio_net.pc = "ready")
    /\ [](Owned(virtio_net.receiveq) <= Q_SIZE)
    /\ [](virtio_net.pc = "ready" => Owned(virtio_net.receiveq) = Q_SIZE)
    /\ [](panic_msg # "called Option::unwrap() on a None value")
    /\ [][LET q == virtio_net.receiveq
              r == virtio_net'.receiveq
          IN  /\ virtio_net.pc = "new" =>
                    /\ Owned(r) \in {Owned(q), Owned(q) + 1}
                    /\ virtio_net'.pc = "ready" => Owned(q) = Q_SIZE
              /\ Len(r.used) < Len(q.used) =>
                    /\ r.used = Tail(q.used)
                    /\ r.avail = Append(q.avail, DevWriteOnly(max_buf_size))
                    /\ virtio_net'.ret.fn = "try_recv"
                    /\ virtio_net'.ret.some
                    /\ kernel' = "running"
              /\ (virtio_net'.ret = RecvNone /\ virtio_net.ret # RecvNone) =>
                    /\ q.used = <<>>
                    /\ r = q
                    /\ virtio_net'.transmitq = virtio_net.transmitq]_vars

\* a packet has been received and the queue is fully offered to the device again
C32_Witness ==
    /\ virtio_net.pc = "ready"
    /\ virtio_net.ret.fn = "try_recv"
    /\ virtio_net.ret.some
    /\ Len(virtio_net.receiveq.avail) = Q_SIZE
    /\ virtio_net.receiveq.used = <<>>
    /\ kernel = "running"

\* C33: a try_send of more than MAX_PACKET_SIZE bytes fails its assertion
\* and enqueues nothing; every buffer try_send enqueues is a zero header
\* followed by the payload and zeros up to MAX_PACKET_SIZE bytes; try_send
\* returns None exactly when the transmit queue has no free descriptor, and
\* then changes no queue; try_recv returns MAX_PACKET_SIZE bytes whenever it
\* returns data, so a shorter payload that comes back from the wire comes
\* back with its zero padding.
ZeroPadded(v) == v \o Zeros(MAX_PACKET_SIZE - Len(v))

SendNow ==
    /\ virtio_net'.ret.fn = "try_send"
    /\ virtio_net' # virtio_net
    /\ virtio_net'.receiveq = virtio_net.receiveq
    /\ Len(virtio_net'.transmitq.avail) >= Len(virtio_net.transmitq.avail)
    /\ virtio_net'.transmitq.used = virtio_net.transmitq.used

C33_PacketsArePadded ==
    /\ [](panic_msg = "assertion failed: value.len() <= MAX_PACKET_SIZE" =>
            /\ kernel = "panicked"
            /\ virtio_net.ret.fn = "try_send"
            /\ Len(virtio_net.ret.value) > MAX_PACKET_SIZE)
    /\ []((virtio_net.ret.fn = "try_send" /\ Len(virtio_net.ret.value) > MAX_PACKET_SIZE) =>
            (kernel = "panicked" /\ ~virtio_net.ret.some))
    /\ [](\A i \in DOMAIN virtio_net.transmitq.avail :
            \E v \in Payloads :
                /\ Len(v) <= MAX_PACKET_SIZE
                /\ virtio_net.transmitq.avail[i].buf =
                      Zeros(SizeOfVirtioNetHdr) \o ZeroPadded(v))
    /\ []((virtio_net.ret.fn = "try_recv" /\ virtio_net.ret.some) =>
            /\ Len(virtio_net.ret.value) = MAX_PACKET_SIZE
            /\ virtio_net.ret.value \in
                  WireData \cup {ZeroPadded(v) : v \in {w \in Payloads : Len(w) <= MAX_PACKET_SIZE}})
    /\ [][SendNow =>
            LET q == virtio_net.transmitq
                r == virtio_net'.transmitq
                value == virtio_net'.ret.value
            IN  /\ kernel' = "panicked" => r = q
                /\ (kernel' = "running" /\ Owned(q) = Q_SIZE) =>
                      (~virtio_net'.ret.some /\ r = q)
                /\ (kernel' = "running" /\ Owned(q) < Q_SIZE) =>
                      /\ virtio_net'.ret.some
                      /\ r.avail = Append(q.avail,
                            DevReadOnly(Zeros(SizeOfVirtioNetHdr) \o ZeroPadded(value)))]_vars

\* a payload of one byte was sent, came back from the wire and was received
C33_Witness ==
    /\ virtio_net.ret.fn = "try_recv"
    /\ virtio_net.ret.some
    /\ virtio_net.ret.value = <<1>> \o Zeros(MAX_PACKET_SIZE - 1)
    /\ virtio_net.ret.value # <<1>>
    /\ kernel = "running"

\* C34 (as stated): whatever events update_pointer has handled, the pointer
\* is on the display (0 <= x <= w - 1, 0 <= y <= h - 1); a relative motion
\* moves it by the event's value, clamped to the display, and the addition
\* does not overflow, also for values at the ends of the 32-bit range; an
\* event of another type does not move it, and a button event sets clicked
\* to (value = 1).
Clamp(v, hi) == IF v < 0 THEN 0 ELSE IF v > hi THEN hi ELSE v

C34_PointerStaysOnDisplay ==
    /\ [](/\ pointer.status.x \in 0..(DisplayW - 1)
          /\ pointer.status.y \in 0..(DisplayH - 1))
    /\ [](panic_msg # "attempt to add with overflow")
    /\ [][LET old == pointer.status
              new == pointer'.status
              event == pointer'.event
              d == value_as_i32(event.value)
          IN  /\ event.type # 2 => (new.x = old.x /\ new.y = old.y)
              /\ event.type = 1 => new.clicked = (event.value = 1)
              /\ event.type # 1 => new.clicked = old.clicked
              /\ (event.type = 2 /\ event.code = 0) =>
                    (new.x = Clamp(old.x + d, DisplayW - 1) /\ new.y = old.y)
              /\ (event.type = 2 /\ event.code # 0) =>
                    (new.y = Clamp(old.y + d, DisplayH - 1) /\ new.x = old.x)]_vars

\* C35: in the pass of update_apps over application a, with the pointer
\* state of the frame: a grab is set only by a click inside the decoration
\* of the open window while none was set, and its offset is the pointer
\* position relative to the window origin; a set grab stays as it is while
\* the button is down, and the window origin is then the pointer position
\* minus the offset; it is cleared when the button is up; the origin of a
\* window without a grab does not change; an application is opened only
\* by a click in its launch rectangle and is never closed.  Between two
\* frames a window with a grab has the button down and its origin at the
\* pointer position minus the offset.
BodyOf(a) ==
    /\ main_loop.pc = "update_apps"
    /\ main_loop.i = a
    /\ main_loop' # main_loop

C35_WindowDrag ==
    /\ [](\A a \in 1..NApplications :
            LET app == main_loop.applications[a]
                p == main_loop.pointer_state
            IN  /\ app.grab_pos.some => app.is_open
                /\ (main_loop.pc = "loop" /\ app.grab_pos.some) =>
                      /\ p.clicked
                      /\ app.rect.x0 = p.x - app.grab_pos.dx
                      /\ app.rect.y0 = p.y - app.grab_pos.dy
                /\ app.rect.w = init_win_rect(a).w
                /\ app.rect.h = init_win_rect(a).h)
    /\ [][\A a \in 1..NApplications :
            LET old == main_loop.applications[a]
                new == main_loop'.applications[a]
                p == main_loop.pointer_state
            IN  /\ ~BodyOf(a) => new = old
                /\ BodyOf(a) =>
                      /\ (~old.grab_pos.some /\ new.grab_pos.some) =>
                            /\ p.clicked
                            /\ check_in(deco_rect(old.rect), p.x, p.y)
                            /\ new.grab_pos = SomeGrab(p.x - old.rect.x0, p.y - old.rect.y0)
                      /\ (old.grab_pos.some /\ p.clicked) =>
                            /\ new.grab_pos = old.grab_pos
                            /\ new.rect.x0 = p.x - old.grab_pos.dx
                            /\ new.rect.y0 = p.y - old.grab_pos.dy
                      /\ (old.grab_pos.some /\ ~p.clicked) => ~new.grab_pos.some
                      /\ ~old.grab_pos.some => new.rect = old.rect
                      /\ ~p.clicked => new.rect = old.rect
                      /\ old.is_open => new.is_open
                      /\ (~old.is_open /\ new.is_open) =>
                            (p.clicked /\ check_in(launch_rect(a), p.x, p.y))]_vars

\* the first window was dragged away from where main opened it and is
\* still held
C35_Witness ==
    /\ main_loop.pc = "loop"
    /\ main_loop.applications[1].is_open
    /\ main_loop.applications[1].grab_pos.some
    /\ main_loop.applications[1].rect # init_win_rect(1)
    /\ main_loop.pointer_state.clicked
    /\ ~main_loop.applications[2].grab_pos.some


\* an update call has returned or panicked in this step
WebviewUpdated == webview'.updates = webview.updates + 1

\* C36: the Webview starts Blank, becomes Active on the first update that
\* carries HTML and never returns to Blank; each HTML update leaves
\* y_offset at 0 and no hovered link; y_offset is never negative; and
\* check_redirect returns a URL only when the state is Active, the pointer
\* was over a link in the most recent update and the left button was down
\* in that update.
C36_WebviewStateMachine ==
    /\ [](webview.updates = 0 => webview.state = "Blank")
    /\ [][WebviewUpdated /\ webview.state = "Blank" =>
             (webview'.state = "Active" <=> webview'.last.html)]_vars
    /\ [][webview.state = "Active" => webview'.state = "Active"]_vars
    /\ [][WebviewUpdated /\ webview'.last.html =>
             webview'.y_offset = 0 /\ ~webview'.link_data.some]_vars
    /\ [](webview.y_offset >= 0)
    /\ [](webview.redirect.some =>
             /\ webview.state = "Active"
             /\ webview.last.over_link
             /\ webview.last.left_clicked)

\* the rectangle r lies inside the rectangle of the container
RectInside(r, outer) ==
    /\ outer.x0 <= r.x0 /\ r.x0 + r.w <= outer.x0 + outer.w
    /\ outer.y0 <= r.y0 /\ r.y0 + r.h <= outer.y0 + outer.h

\* every child of every container of the layout lies inside the container
RECURSIVE ChildrenEnclosed(_)
ChildrenEnclosed(node) ==
    \A k \in DOMAIN node.children :
        /\ RectInside(node.children[k].rect, node.rect)
        /\ ChildrenEnclosed(node.children[k])

\* in every Vertical container each child starts at or below the bottom
\* edge of the child before it
RECURSIVE VerticalStacked(_)
VerticalStacked(node) ==
    /\ node.orientation = "Vertical" =>
           \A k \in 2..Len(node.children) :
               node.children[k].rect.y0 >=
                   node.children[k - 1].rect.y0 + node.children[k - 1].rect.h
    /\ \A k \in DOMAIN node.children : VerticalStacked(node.children[k])

\* C37: in a layout produced by compute_layout every child's rectangle
\* lies inside the rectangle of its container, and consecutive children of
\* a Vertical container do not overlap vertically.
C37_LayoutNested ==
    page_layout.done /\ page_layout.result.ok =>
        /\ ChildrenEnclosed(page_layout.result.node)
        /\ VerticalStacked(page_layout.result.node)

\* C38: set_autoscroll sets the vertical offset to max_h - dst_rect.h - 1
\* and leaves the horizontal offset unchanged; the subtraction does not
\* wrap, so for every max_h and dst_rect.h the offset is at most max_h.
C38_AutoscrollOffset ==
    canvas.called =>
        /\ ~canvas.panic
        /\ canvas.offsets[1] = canvas.before[1]
        /\ canvas.offsets[2] = canvas.max_h - canvas.dst_rect.h - 1
        /\ canvas.offsets[2] <= canvas.max_h

\* the region the host has registered is a live allocation of its size
RegisteredLive ==
    [ptr |-> pixel_data.registered.addr,
     n |-> pixel_data.registered.w * pixel_data.registered.h] \in pixel_data.heap

\* C39: after every get_framebuffer call the region registered with the
\* host has the width and height of the current window rectangle, and at
\* every point of any sequence of resizes, get_framebuffer and
\* force_refresh calls the registered region is a live allocation.
C39_RegisteredBufferLive ==
    /\ pixel_data.last_ret = "get_framebuffer" =>
           /\ pixel_data.registered.w = pixel_data.win_rect.w
           /\ pixel_data.registered.h = pixel_data.win_rect.h
    /\ RegisteredLive

\* get_framebuffer has returned after a resize: the buffer registered is a
\* new one of the new size and the old one is freed
C39_Witness ==
    /\ pixel_data.last_ret = "get_framebuffer"
    /\ pixel_data.registered.w = MaxWinDim
    /\ pixel_data.registered.addr # 1
    /\ pixel_data.fb_handle = pixel_data.new_fb_handle
    /\ Cardinality(pixel_data.heap) = 1
====
